---- MODULE Spec2Model ----
(***************************************************************************)
(* A model of the lockbox bridge: the LockboxController of                 *)
(* server/app_game_control.py (joystick/LED state, the serial reader       *)
(* thread) and the LockboxWebSocketServer of server/ws_server.py (client   *)
(* sessions, authentication, broadcasts).                                  *)
(*                                                                         *)
(* Two execution contexts are modelled as in the code: reader threads      *)
(* (threading.Thread running _communication_loop) and the asyncio event    *)
(* loop.  A reader thread may be pre-empted between any two statements; an *)
(* event-loop task runs without interruption by other tasks up to its next *)
(* await of a socket send, of a gather, or of the next client message.     *)
(***************************************************************************)
EXTENDS Integers, Sequences, FiniteSets, TLC

\* ---------------------------------------------------------------- bounds
NumClients == 2      \* sessions of the session specification
MaxThreads == 2      \* reader threads that can ever be started
MaxBuf == 1          \* client messages buffered in one socket
MaxMsgs == 3         \* client messages sent in one run, all sessions together
MaxSched == 2        \* broadcasts scheduled by callbacks and not yet run
MaxLines == 2        \* serial lines read in one run
MaxBridgeLines == 1  \* serial lines read in one run of the bridge specification
MaxTries == 6        \* reconnection attempts counted since the last line
MaxOutages == 1      \* losses of the link in the telemetry specification
LogCapacity == 2     \* a capacity for the log of LED changes (the code sets none)
MaxTelemetryMsgs == 2  \* messages sent by clients in the telemetry specification

\* ------------------------------------------------------ program constants
JoyDefault == 512
LedLow == 0
LedHigh == 255
FrameFieldCount == 6
DataTimeout == 5
MaxReconnectAttempts == 5
JoyLow == 0
JoyHigh == 1023
MaxDrift == 20
DEFAULT_ADMIN_TOKEN == "lockbox-admin"

Sessions == 1 .. NumClients
ThreadIds == 1 .. MaxThreads

JoyKeys == {"joystick1", "joystick2", "joystick3",
            "joystick1X", "joystick1Y", "joystick2X", "joystick2Y",
            "joystick3X", "joystick3Y"}
LedKeys == {"led1", "led2", "led3"}

\* An optional value (None or v) is the sequence << >> or << v >>.
None == << >>
Some(v) == << v >>

VARIABLES
    \* LockboxController
    joystick_values, led_values, connected, running, serial_connection,
    comm_thread, threads, serial_out, nlines,
    \* the seconds since last_data_time, counted up to DataTimeout + 1
    age,
    \* history: reconnection attempts since a line was last read, up to MaxTries
    tries,
    \* LockboxWebSocketServer
    auth_enabled, clients, authenticated_clients, client_info,
    lock_states_len, sched, bcast,
    \* the websockets server ("listening", "closed" by stop_server, "failed"
    \* when start_server returned False), the position of stop_server, and
    \* history: what the last direct call of set_led_values returned
    server, stop_pc, led_result,
    \* one handle_client task and one socket per session
    pc, authenticated, inq, nsent, sock, out,
    \* history: the last message a handler took from its socket
    handled

ctlVars == << joystick_values, led_values, connected, running,
              serial_connection, comm_thread, threads, serial_out, nlines,
              age, tries >>
lifeVars == << server, stop_pc, led_result >>
srvVars == << auth_enabled, clients, authenticated_clients, client_info,
              lock_states_len, sched, bcast, lifeVars >>
sesVars == << pc, authenticated, inq, nsent, sock, out, handled >>
vars == << ctlVars, srvVars, sesVars >>

\* ------------------------------------------------- text of the serial link
\* A serial line is a sequence of one-character strings.
Digits == << "0", "1", "2", "3", "4", "5", "6", "7", "8", "9" >>
DigitSet == { Digits[i] : i \in 1 .. 10 }
DigitVal(ch) == (CHOOSE i \in 1 .. 10 : Digits[i] = ch) - 1

\* str(n) of a Python int, as the f-string of the LED command and the device's
\* own print of a reading produce it.
RECURSIVE NatStr(_)
NatStr(n) ==
    IF n < 10 THEN << Digits[n + 1] >>
    ELSE NatStr(n \div 10) \o << Digits[(n % 10) + 1] >>
IntStr(n) == IF n < 0 THEN << "-" >> \o NatStr(0 - n) ELSE NatStr(n)

RECURSIVE JoinComma(_)
JoinComma(toks) ==
    IF Len(toks) = 0 THEN << >>
    ELSE IF Len(toks) = 1 THEN toks[1]
    ELSE toks[1] \o << "," >> \o JoinComma(Tail(toks))

\* The line the device sends for six readings: <J{x1},{y1},{x2},{y2},{x3},{y3}>
JLine(f) ==
    << "<", "J" >> \o JoinComma([i \in 1 .. Len(f) |-> IntStr(f[i])]) \o << ">" >>

\* str.split(sep): always at least one piece.
RECURSIVE Split(_, _)
Split(s, sep) ==
    IF \A i \in 1 .. Len(s) : s[i] # sep THEN << s >>
    ELSE LET i == CHOOSE k \in 1 .. Len(s) :
                     s[k] = sep /\ \A j \in 1 .. (k - 1) : s[j] # sep
         IN << SubSeq(s, 1, i - 1) >> \o Split(SubSeq(s, i + 1, Len(s)), sep)

\* str.strip() of blanks, as int() does before it reads the literal.
RECURSIVE Strip(_)
Strip(s) ==
    IF Len(s) > 0 /\ s[1] = " " THEN Strip(Tail(s))
    ELSE IF Len(s) > 0 /\ s[Len(s)] = " " THEN Strip(SubSeq(s, 1, Len(s) - 1))
    ELSE s

Unsigned(tok) ==
    LET t == Strip(tok)
    IN IF Len(t) > 0 /\ t[1] \in {"-", "+"} THEN Tail(t) ELSE t

\* int(tok) returns (TRUE) or raises ValueError (FALSE).
IsIntLiteral(tok) ==
    LET body == Unsigned(tok)
    IN Len(body) > 0 /\ \A i \in 1 .. Len(body) : body[i] \in DigitSet

RECURSIVE DigitsValue(_)
DigitsValue(ds) ==
    IF Len(ds) = 0 THEN 0
    ELSE 10 * DigitsValue(SubSeq(ds, 1, Len(ds) - 1)) + DigitVal(ds[Len(ds)])

PyInt(tok) ==
    LET t == Strip(tok)
    IN IF Len(t) > 0 /\ t[1] = "-" THEN 0 - DigitsValue(Unsigned(tok))
       ELSE DigitsValue(Unsigned(tok))

\* The fields of a joystick payload: six pieces that int() all converts, or
\* the line is dropped (the count is wrong, or int() raises ValueError before
\* anything is assigned).
ParseFieldsPadded(values) ==
    Some([i \in 1 .. FrameFieldCount |->
            IF i <= Len(values) /\ IsIntLiteral(values[i]) THEN PyInt(values[i])
            ELSE 0])
ParseFields(values) ==
    IF Len(values) # FrameFieldCount THEN None
    ELSE IF \E i \in 1 .. FrameFieldCount : ~IsIntLiteral(values[i]) THEN None
    ELSE Some([i \in 1 .. FrameFieldCount |-> PyInt(values[i])])

\* _process_arduino_message up to the six int() conversions: Some(the six
\* integers j1x, j1y, j2x, j2y, j3x, j3y) or None when the line is dropped.
ParseFrame(message) ==
    IF Len(message) = 0 THEN None
    ELSE IF ~(message[1] = "<" /\ message[Len(message)] = ">") THEN None
    ELSE LET content == SubSeq(message, 2, Len(message) - 1)
         IN IF ~(Len(content) > 0 /\ content[1] = "J") THEN None
            ELSE ParseFields(Split(Tail(content), ","))

\* The nine assignments of _process_arduino_message, in program order: the
\* key assigned and the index of the parsed integer it receives.
AssignKey == << "joystick1", "joystick2", "joystick3",
                "joystick1X", "joystick1Y", "joystick2X", "joystick2Y",
                "joystick3X", "joystick3Y" >>
AssignSrcShifted == << 1, 2, 3, 1, 2, 3, 4, 5, 6 >>
AssignSrc == << 1, 3, 5, 1, 2, 3, 4, 5, 6 >>
NumAssign == Len(AssignKey)

\* ------------------------------------------------------------ LED values
Max(a, b) == IF a >= b THEN a ELSE b
Min(a, b) == IF a <= b THEN a ELSE b

\* max(0, min(255, v))
ClampLedNoFloor(v) == Min(LedHigh, v)
ClampLed(v) == Max(LedLow, Min(LedHigh, v))

\* The first half of set_led_values: the channels given (not None) are
\* clamped and stored, the others keep their value.
UpdateLedReset(cur, arg) == IF arg = None THEN LedLow ELSE ClampLed(arg[1])
UpdateLed(cur, arg) == IF arg = None THEN cur ELSE ClampLed(arg[1])
StoreLeds(leds, l1, l2, l3) ==
    [k \in LedKeys |->
        CASE k = "led1" -> UpdateLed(leds[k], l1)
          [] k = "led2" -> UpdateLed(leds[k], l2)
          [] k = "led3" -> UpdateLed(leds[k], l3)]

\* A JSON value of a channel that is no number (a string such as "abc") is the
\* sequence TextArg: min(255, v) raises TypeError on it.
TextArg == << 0, 0 >>
IsText(arg) == Len(arg) = 2
LedRaises(l1, l2, l3) == IsText(l1) \/ IsText(l2) \/ IsText(l3)
\* The LED values when set_led_values returns or raises: the channels before
\* the first one that raises are stored already.
StoreLedsUntilError(leds, l1, l2, l3) ==
    IF IsText(l1) THEN leds
    ELSE IF IsText(l2) THEN StoreLeds(leds, l1, None, None)
    ELSE IF IsText(l3) THEN StoreLeds(leds, l1, l2, None)
    ELSE StoreLeds(leds, l1, l2, l3)

\* command = f"<L{led1},{led2},{led3}>"
LedCommand(leds) ==
    << "<", "L" >>
    \o JoinComma(<< IntStr(leds["led1"]), IntStr(leds["led2"]), IntStr(leds["led3"]) >>)
    \o << ">" >>

\* The second half of set_led_values: the command is written when the link is
\* connected and a serial object exists; write_ok is whether write() returns
\* (it raises on a closed or unplugged port).  The value returned.
LedWriteTried == connected /\ serial_connection # "None"
LedWriteDoneAlways(write_ok) == TRUE
LedWriteDone(write_ok) == LedWriteTried /\ serial_connection = "open" /\ write_ok

\* --------------------------------------------------------------- messages
\* A text message of a client: json is "invalid" (json.loads raises),
\* "nonobject" (valid JSON that is no object) or "object"; the other fields
\* are the keys the server reads, None when the key is absent.
NoLeds == [k \in LedKeys |-> None]
ClientMsg(t) ==
    [json |-> "object", type |-> t, token |-> None, leds |-> NoLeds,
     command |-> None, joysticks |-> None]
InvalidJson == [ClientMsg(None) EXCEPT !.json = "invalid"]
NonObject == [ClientMsg(None) EXCEPT !.json = "nonobject"]
AuthMsg(tok) == [ClientMsg(Some("auth")) EXCEPT !.token = tok]
LedControl(l1, l2, l3) ==
    [ClientMsg(Some("led_control")) EXCEPT
        !.leds = [k \in LedKeys |->
                    CASE k = "led1" -> l1 [] k = "led2" -> l2 [] k = "led3" -> l3]]
AdminCommand(cmd) == [ClientMsg(Some("admin_command")) EXCEPT !.command = cmd]
ClientJoystickUpdate(v) ==
    [ClientMsg(Some("joystick_update")) EXCEPT !.joysticks = Some(v)]

\* Messages of the server.
NoMsg == [type |-> "none"]
AuthRequiredAsFailed == [type |-> "auth_failed"]
AuthRequired == [type |-> "auth_required"]
AuthFailed == [type |-> "auth_failed"]
Pong == [type |-> "pong"]
LedUpdateStale(leds) == [type |-> "led_update", leds |-> led_values]
LedUpdate(leds) == [type |-> "led_update", leds |-> leds]
JoystickUpdate(joy) == [type |-> "joystick_update", joysticks |-> joy]
ArduinoStatus(b) == [type |-> "arduino_status", connected |-> b]
ServerShutdown == [type |-> "server_shutdown"]

\* send_state_to_client builds the snapshot before it awaits the send.
StateMsgCounting ==
    [type |-> "state", joysticks |-> joystick_values, leds |-> led_values,
     arduino_connected |-> connected,
     clients_connected |->
        Cardinality({ c \in Sessions : client_info[c].messages_received > 0 })]
StateMsg ==
    [type |-> "state", joysticks |-> joystick_values, leds |-> led_values,
     arduino_connected |-> connected, clients_connected |-> Cardinality(clients)]

NoInfo ==
    [present |-> FALSE, authenticated |-> FALSE, is_admin |-> FALSE,
     messages_received |-> 0, messages_sent |-> 0]
NoBcast == [active |-> FALSE, msg |-> NoMsg, targets |-> {}, todo |-> {}, ok |-> {}]
NoThread == [pc |-> "none", vals |-> << >>, step |-> 0, attempts |-> 0]

NoHandled == [session |-> 0, msg |-> ClientMsg(None), branch |-> "none"]

CbIds == { 0 - i : i \in 1 .. MaxSched }
\* The broadcast of stop_server has its own place among the broadcasts.
StopId == 0
BcIds == Sessions \cup CbIds \cup {StopId}

\* ------------------------------------------------------------------- Init
\* The state once start_server has returned True: the link is connected, one
\* reader thread runs, the callbacks are registered, no client has connected.
InitJoysticks == [k \in JoyKeys |-> JoyDefault]
InitLeds == [k \in LedKeys |-> 0]

Init ==
    /\ joystick_values = InitJoysticks
    /\ led_values = InitLeds
    /\ connected = TRUE
    /\ running = TRUE
    /\ serial_connection = "open"
    /\ comm_thread = 1
    /\ threads = [t \in ThreadIds |->
                    IF t = 1 THEN [NoThread EXCEPT !.pc = "loop"] ELSE NoThread]
    /\ serial_out = << >>
    /\ nlines = 0
    /\ age = 0
    /\ tries = 0
    /\ auth_enabled \in BOOLEAN
    /\ clients = {}
    /\ authenticated_clients = {}
    /\ client_info = [c \in Sessions |-> NoInfo]
    /\ lock_states_len = 0
    /\ server = "listening"
    /\ stop_pc = "idle"
    /\ led_result = None
    /\ sched = << >>
    /\ bcast = [b \in BcIds |-> NoBcast]
    /\ pc = [c \in Sessions |-> "new"]
    /\ authenticated = [c \in Sessions |-> FALSE]
    /\ inq = [c \in Sessions |-> << >>]
    /\ nsent = 0
    /\ sock = [c \in Sessions |-> "closed"]
    /\ out = [c \in Sessions |-> NoMsg]
    /\ handled = NoHandled

\* ------------------------------------------------------ the Broadcast Hub
\* unregister_client: the three collections after it.
UnregClients(c) == clients \ {c}
UnregAuthenticatedKept(c) == authenticated_clients
UnregAuthenticated(c) == authenticated_clients \ {c}
UnregInfoKept(c) == client_info
UnregInfo(c) == [client_info EXCEPT ![c] = NoInfo]

\* The awaited websocket.send of send_to_client returns or raises: it does
\* neither while the peer of the session has stopped reading ("stalled"),
\* send_to_client sets no timeout on it.
Writable(t) == sock[t] # "stalled"
\* send_to_client(t) once the awaited send has finished: the message is
\* delivered and counted when the socket is open; ConnectionClosed
\* unregisters the session when it is closed.
SendTo(t) ==
    IF sock[t] = "open"
    THEN /\ client_info' =
                IF client_info[t].present
                THEN [client_info EXCEPT ![t].messages_sent = @ + 1]
                ELSE client_info
         /\ UNCHANGED << clients, authenticated_clients >>
    ELSE /\ clients' = UnregClients(t)
         /\ authenticated_clients' = UnregAuthenticated(t)
         /\ client_info' = UnregInfo(t)

\* send_to_all_clients: the sessions the message is addressed to.
TargetClientsAll(authenticated_only) == clients
TargetClients(authenticated_only) ==
    IF authenticated_only THEN authenticated_clients ELSE clients

\* send_to_all_clients up to its gather: one send task per target, holding
\* the message as serialized now.
StartBcast(msg, targets) ==
    [active |-> TRUE, msg |-> msg, targets |-> targets, todo |-> targets, ok |-> {}]

\* The event loop runs no other task while a handler is inside the blocking
\* calls of reset_arduino (the join of stop, the opening of the port).
LoopFree ==
    /\ \A c \in Sessions : pc[c] \notin {"join", "reconnect"}
    /\ stop_pc # "join"

\* register_client and the first send of handle_client.
Connect(c) ==
    /\ LoopFree
    /\ server = "listening"
    /\ pc[c] = "new"
    /\ sock' = [sock EXCEPT ![c] = "open"]
    /\ clients' = clients \cup {c}
    /\ client_info' = [client_info EXCEPT ![c] =
            [NoInfo EXCEPT !.present = TRUE, !.authenticated = ~auth_enabled]]
    /\ authenticated_clients' =
            IF ~auth_enabled THEN authenticated_clients \cup {c}
            ELSE authenticated_clients
    /\ authenticated' = [authenticated EXCEPT ![c] = ~auth_enabled]
    /\ out' = [out EXCEPT ![c] =
            IF ~auth_enabled
            THEN [StateMsg EXCEPT !.clients_connected = Cardinality(clients \cup {c})]
            ELSE AuthRequired]
    /\ pc' = [pc EXCEPT ![c] = "send"]
    /\ UNCHANGED << ctlVars, auth_enabled, lifeVars, lock_states_len, sched, bcast,
                    inq, nsent >>
    /\ UNCHANGED handled

\* The client sends a message; it waits in the socket until the handler
\* takes it.
ClientSend(c, m) ==
    /\ pc[c] \notin {"new", "done"}
    /\ sock[c] = "open"
    /\ Len(inq[c]) < MaxBuf
    /\ nsent < MaxMsgs
    /\ inq' = [inq EXCEPT ![c] = Append(@, m)]
    /\ nsent' = nsent + 1
    /\ UNCHANGED << ctlVars, srvVars, pc, authenticated, sock, out >>
    /\ UNCHANGED handled

\* The peer of a session stops reading its connection: what the server sends
\* to it from now on stays in the buffers, and once they are full an awaited
\* send does not return.
ClientStall(c) ==
    /\ pc[c] \notin {"new", "done"}
    /\ sock[c] = "open"
    /\ sock' = [sock EXCEPT ![c] = "stalled"]
    /\ UNCHANGED << ctlVars, srvVars, pc, authenticated, inq, nsent, out >>
    /\ UNCHANGED handled
\* The connection of a session closes (the peer leaves, the network fails, the
\* keepalive of the websockets server gives up on a peer that stopped reading).
ClientClose(c) ==
    /\ pc[c] \notin {"new", "done"}
    /\ sock[c] \in {"open", "stalled"}
    /\ sock' = [sock EXCEPT ![c] = "closed"]
    /\ UNCHANGED << ctlVars, srvVars, pc, authenticated, inq, nsent, out >>
    /\ UNCHANGED handled

\* --------------------------------------------------- handle_client, a message
\* is_admin as process_client_message reads it.
IsAdminAlways(c) == TRUE
IsAdmin(c) == client_info[c].present /\ client_info[c].is_admin

\* handle_client: whether a message that is not a pending auth reaches
\* process_client_message.
MayProcessAlways(c) == TRUE
MayProcess(c) == authenticated[c] \/ ~auth_enabled

\* handle_admin_command: the branch taken for the command of m.
AdminCommands == {"diagnostic", "server_status", "client_list", "reset_arduino"}
AdminBranch(m) ==
    IF m.command # None /\ m.command[1] \in AdminCommands THEN m.command[1]
    ELSE "unhandled"

\* process_client_message: the branch taken for the object m.
ProcessBranch(c, m) ==
    IF m.type = None THEN "no_type"
    ELSE IF m.type[1] = "led_control" THEN "led_control"
    ELSE IF m.type[1] = "ping" THEN "ping"
    ELSE IF m.type[1] = "get_state" THEN "get_state"
    ELSE IF m.type[1] = "admin_command" /\ IsAdmin(c) THEN AdminBranch(m)
    ELSE "unhandled"

\* handle_client: an auth message is handled as one only while the handler's
\* own flag says the session is not authenticated.
AuthPendingAlways(c) == TRUE
AuthPending(c) == ~authenticated[c]

\* The body of the async-for of handle_client: what happens to message m.
Dispatch(c, m) ==
    IF m.json = "invalid" THEN "json_error"
    ELSE IF m.json = "nonobject" THEN "attribute_error"
    ELSE IF AuthPending(c) /\ m.type = Some("auth") THEN "auth"
    ELSE IF ~MayProcess(c) THEN "not_authenticated"
    ELSE ProcessBranch(c, m)

\* The message the handler of c takes next from its socket.
Taking(c) == LoopFree /\ pc[c] = "recv" /\ Len(inq[c]) > 0
Cur(c) == Head(inq[c])

\* The record of the message taken and of the branch it takes.
Handled(c) == [session |-> c, msg |-> Cur(c), branch |-> Dispatch(c, Cur(c))]

\* messages_received is counted once json.loads has returned.
Received(c) ==
    IF client_info[c].present
    THEN [client_info EXCEPT ![c].messages_received = @ + 1]
    ELSE client_info

\* No client message writes the joystick values: what they are after the
\* handling of m.
JoysticksFromClient(m) ==
    IF m.joysticks # None THEN m.joysticks[1] ELSE joystick_values
JoysticksAfterClientMessage(m) == joystick_values

HandleInvalidJsonExit(c) ==
    /\ Taking(c)
    /\ Dispatch(c, Cur(c)) = "json_error"
    /\ inq' = [inq EXCEPT ![c] = Tail(@)]
    /\ handled' = Handled(c)
    /\ clients' = UnregClients(c)
    /\ authenticated_clients' = UnregAuthenticated(c)
    /\ client_info' = UnregInfo(c)
    /\ pc' = [pc EXCEPT ![c] = "done"]
    /\ UNCHANGED << ctlVars, auth_enabled, lifeVars, lock_states_len, sched, bcast,
                    authenticated, nsent, sock, out >>
\* Text that is not JSON: JSONDecodeError is logged, nothing is counted.
HandleInvalidJson(c) ==
    /\ Taking(c)
    /\ Dispatch(c, Cur(c)) = "json_error"
    /\ inq' = [inq EXCEPT ![c] = Tail(@)]
    /\ handled' = Handled(c)
    /\ joystick_values' = JoysticksAfterClientMessage(Cur(c))
    /\ UNCHANGED << age, tries, nlines, led_values, connected, running, serial_connection,
                    comm_thread, threads, serial_out, srvVars,
                    pc, authenticated, nsent, sock, out >>

\* Messages that are counted and otherwise dropped: JSON that is no object
\* (data.get raises), a message of a session that has not authenticated, a
\* message without type, of a type no branch handles (a second auth, a
\* joystick_update or led_update sent by a client), an admin_command of a
\* session that is not admin.
HandleDropped(c) ==
    /\ Taking(c)
    /\ Dispatch(c, Cur(c)) \in
            {"attribute_error", "not_authenticated", "no_type", "unhandled"}
    /\ inq' = [inq EXCEPT ![c] = Tail(@)]
    /\ handled' = Handled(c)
    /\ client_info' = Received(c)
    /\ joystick_values' = JoysticksAfterClientMessage(Cur(c))
    /\ UNCHANGED << age, tries, nlines, led_values, connected, running, serial_connection,
                    comm_thread, threads, serial_out,
                    auth_enabled, lifeVars, clients, authenticated_clients,
                    lock_states_len, sched, bcast,
                    pc, authenticated, nsent, sock, out >>

\* authenticate_client: any non-empty token authenticates, the admin token
\* makes the session admin.
TokenOf(m) == IF m.token = None THEN "" ELSE m.token[1]
TokenAcceptedAny(token) == TRUE
TokenAccepted(token) == token # ""
TokenIsAdmin(token) == token = DEFAULT_ADMIN_TOKEN
AuthInfo(c, token) ==
    IF Received(c)[c].present
    THEN [Received(c) EXCEPT ![c].authenticated = TRUE,
                             ![c].is_admin = TokenIsAdmin(token)]
    ELSE Received(c)

\* An auth message of a session whose handler has not authenticated it:
\* authenticate_client, then the state snapshot or auth_failed is sent.
HandleAuth(c) ==
    /\ Taking(c)
    /\ Dispatch(c, Cur(c)) = "auth"
    /\ inq' = [inq EXCEPT ![c] = Tail(@)]
    /\ handled' = Handled(c)
    /\ LET token == TokenOf(Cur(c))
       IN IF TokenAccepted(token)
          THEN /\ authenticated_clients' = authenticated_clients \cup {c}
               /\ client_info' = AuthInfo(c, token)
               /\ authenticated' = [authenticated EXCEPT ![c] = TRUE]
               /\ out' = [out EXCEPT ![c] = StateMsg]
          ELSE /\ client_info' = Received(c)
               /\ out' = [out EXCEPT ![c] = AuthFailed]
               /\ UNCHANGED << authenticated_clients, authenticated >>
    /\ pc' = [pc EXCEPT ![c] = "send"]
    /\ joystick_values' = JoysticksAfterClientMessage(Cur(c))
    /\ UNCHANGED << age, tries, nlines, led_values, connected, running, serial_connection,
                    comm_thread, threads, serial_out,
                    auth_enabled, lifeVars, clients, lock_states_len, sched, bcast,
                    nsent, sock >>

\* led_control: set_led_values with the channels of "leds", one more entry
\* in lock_states, led_update to the authenticated sessions.  When
\* set_led_values raises, the except clause of the branch logs the error:
\* nothing is written, recorded or broadcast.
LedBcastTargets == TargetClients(TRUE)
HandleLedControl(c, write_ok) ==
    /\ Taking(c)
    /\ Dispatch(c, Cur(c)) = "led_control"
    /\ inq' = [inq EXCEPT ![c] = Tail(@)]
    /\ handled' = Handled(c)
    /\ client_info' = Received(c)
    /\ LET leds == Cur(c).leds
           raised == LedRaises(leds["led1"], leds["led2"], leds["led3"])
           stored == StoreLedsUntilError(led_values,
                                         leds["led1"], leds["led2"], leds["led3"])
       IN /\ led_values' = stored
          /\ serial_out' = IF ~raised /\ LedWriteDone(write_ok) THEN LedCommand(stored)
                           ELSE serial_out
          /\ IF raised \/ LedBcastTargets = {}
             THEN UNCHANGED << bcast, pc >>
             ELSE /\ bcast' = [bcast EXCEPT ![c] =
                                 StartBcast(LedUpdate(stored), LedBcastTargets)]
                  /\ pc' = [pc EXCEPT ![c] = "gather"]
          /\ lock_states_len' = IF raised THEN lock_states_len
                                ELSE lock_states_len + 1
    /\ joystick_values' = JoysticksAfterClientMessage(Cur(c))
    /\ UNCHANGED << age, tries, nlines, connected, running, serial_connection, comm_thread,
                    threads, auth_enabled, lifeVars, clients,
                    authenticated_clients, sched,
                    authenticated, nsent, sock, out >>

\* ping and get_state: one reply to the requester.
ReplyTo(branch) == IF branch = "ping" THEN Pong ELSE StateMsg
HandleQuery(c) ==
    /\ Taking(c)
    /\ Dispatch(c, Cur(c)) \in {"ping", "get_state"}
    /\ inq' = [inq EXCEPT ![c] = Tail(@)]
    /\ handled' = Handled(c)
    /\ client_info' = Received(c)
    /\ out' = [out EXCEPT ![c] = ReplyTo(Dispatch(c, Cur(c)))]
    /\ pc' = [pc EXCEPT ![c] = "send"]
    /\ joystick_values' = JoysticksAfterClientMessage(Cur(c))
    /\ UNCHANGED << age, tries, nlines, led_values, connected, running, serial_connection,
                    comm_thread, threads, serial_out,
                    auth_enabled, lifeVars, clients, authenticated_clients,
                    lock_states_len, sched, bcast,
                    authenticated, nsent, sock >>

\* The awaited send of a handler finishes.  After the reply to a successful
\* reset_arduino the handler broadcasts arduino_status to the sessions that
\* are authenticated then.
ResetSucceeded(m) ==
    m.type = "admin_response" /\ m.command = "reset_arduino" /\ m.success
SendDone(c) ==
    /\ LoopFree
    /\ pc[c] = "send"
    /\ Writable(c)
    /\ SendTo(c)
    /\ out' = [out EXCEPT ![c] = NoMsg]
    /\ IF ResetSucceeded(out[c]) /\ authenticated_clients' # {}
       THEN /\ bcast' = [bcast EXCEPT ![c] =
                            StartBcast(ArduinoStatus(TRUE), authenticated_clients')]
            /\ pc' = [pc EXCEPT ![c] = "gather"]
       ELSE /\ pc' = [pc EXCEPT ![c] = "recv"]
            /\ UNCHANGED bcast
    /\ UNCHANGED << ctlVars, auth_enabled, lifeVars, lock_states_len, sched,
                    authenticated, inq, nsent, sock >>
    /\ UNCHANGED handled

\* One send task of a broadcast finishes.
TaskSend(b, t) ==
    /\ LoopFree
    /\ bcast[b].active
    /\ t \in bcast[b].todo
    /\ Writable(t)
    /\ SendTo(t)
    /\ bcast' = [bcast EXCEPT ![b].todo = @ \ {t},
                              ![b].ok = IF sock[t] = "open" THEN @ \cup {t} ELSE @]
    /\ UNCHANGED << ctlVars, auth_enabled, lifeVars, lock_states_len, sched,
                    pc, authenticated, inq, nsent, sock, out >>
    /\ UNCHANGED handled

\* gather returns to the handler that awaited the broadcast.
GatherDone(c) ==
    /\ LoopFree
    /\ pc[c] = "gather"
    /\ bcast[c].active
    /\ bcast[c].todo = {}
    /\ bcast' = [bcast EXCEPT ![c] = NoBcast]
    /\ pc' = [pc EXCEPT ![c] = "recv"]
    /\ UNCHANGED << ctlVars, auth_enabled, lifeVars, clients, authenticated_clients,
                    client_info, lock_states_len, sched,
                    authenticated, inq, nsent, sock, out >>
    /\ UNCHANGED handled

\* The socket is closed and holds no more message: the async-for ends and
\* the finally clause unregisters the session.
HandlerExit(c) ==
    /\ LoopFree
    /\ pc[c] = "recv"
    /\ Len(inq[c]) = 0
    /\ sock[c] = "closed"
    /\ clients' = UnregClients(c)
    /\ authenticated_clients' = UnregAuthenticated(c)
    /\ client_info' = UnregInfo(c)
    /\ pc' = [pc EXCEPT ![c] = "done"]
    /\ UNCHANGED << ctlVars, auth_enabled, lifeVars, lock_states_len, sched, bcast,
                    authenticated, inq, nsent, sock, out >>
    /\ UNCHANGED handled

\* ----------------------------------------------------------- admin commands
\* run_diagnostic: the LED values after the test pattern (128 on every
\* channel) and the restore of the saved values, both through set_led_values.
DiagTestLeds(leds) == StoreLeds(leds, Some(128), Some(128), Some(128))
DiagLedsKept(leds) == IF connected THEN DiagTestLeds(leds) ELSE leds
DiagLeds(leds) ==
    IF connected
    THEN StoreLeds(DiagTestLeds(leds), Some(leds["led1"]), Some(leds["led2"]),
                   Some(leds["led3"]))
    ELSE leds
DiagSerial(w1, w2) ==
    IF connected /\ LedWriteDone(w2) THEN LedCommand(DiagLeds(led_values))
    ELSE IF connected /\ LedWriteDone(w1) THEN LedCommand(DiagTestLeds(led_values))
    ELSE serial_out
DiagResults(w1) ==
    [connected |-> connected, joysticks |-> joystick_values, leds |-> led_values,
     led_test |-> connected /\ LedWriteDone(w1)]

AdminReply(cmd, w1) ==
    CASE cmd = "diagnostic" ->
            [type |-> "admin_response", command |-> cmd, results |-> DiagResults(w1)]
      [] cmd = "server_status" ->
            [type |-> "admin_response", command |-> cmd,
             status |-> [client_count |-> Cardinality(clients),
                         authenticated_clients |-> Cardinality(authenticated_clients),
                         arduino_connected |-> connected,
                         lock_state_changes |-> lock_states_len]]
      [] cmd = "client_list" ->
            [type |-> "admin_response", command |-> cmd,
             clients |-> { c \in Sessions : client_info[c].present }]
ResetReply(success) ==
    [type |-> "admin_response", command |-> "reset_arduino", success |-> success]

\* diagnostic, server_status, client_list: one reply to the requester.
HandleAdminQuery(c, w1, w2) ==
    /\ Taking(c)
    /\ Dispatch(c, Cur(c)) \in {"diagnostic", "server_status", "client_list"}
    /\ inq' = [inq EXCEPT ![c] = Tail(@)]
    /\ handled' = Handled(c)
    /\ client_info' = Received(c)
    /\ LET cmd == Dispatch(c, Cur(c))
       IN /\ led_values' = IF cmd = "diagnostic" THEN DiagLeds(led_values)
                           ELSE led_values
          /\ serial_out' = IF cmd = "diagnostic" THEN DiagSerial(w1, w2)
                           ELSE serial_out
          /\ out' = [out EXCEPT ![c] = AdminReply(cmd, w1)]
    /\ pc' = [pc EXCEPT ![c] = "send"]
    /\ joystick_values' = JoysticksAfterClientMessage(Cur(c))
    /\ UNCHANGED << age, tries, nlines, connected, running, serial_connection, comm_thread,
                    threads, auth_enabled, lifeVars, clients, authenticated_clients,
                    lock_states_len, sched, bcast,
                    authenticated, nsent, sock >>

\* reset_arduino, first part: disconnect() acts only on a connected link, and
\* then stop() clears running and joins the latest reader thread for at most
\* one second.
HandleResetArduino(c) ==
    /\ Taking(c)
    /\ Dispatch(c, Cur(c)) = "reset_arduino"
    /\ Len(sched) + 2 <= MaxSched
    /\ \E t \in ThreadIds : threads[t].pc = "none"
    /\ inq' = [inq EXCEPT ![c] = Tail(@)]
    /\ handled' = Handled(c)
    /\ client_info' = Received(c)
    /\ IF serial_connection # "None" /\ connected
       THEN /\ running' = FALSE
            /\ pc' = [pc EXCEPT ![c] = "join"]
       ELSE /\ pc' = [pc EXCEPT ![c] = "reconnect"]
            /\ UNCHANGED running
    /\ joystick_values' = JoysticksAfterClientMessage(Cur(c))
    /\ UNCHANGED << age, tries, nlines, led_values, connected, serial_connection, comm_thread,
                    threads, serial_out, auth_enabled, lifeVars, clients,
                    authenticated_clients, lock_states_len, sched, bcast,
                    authenticated, nsent, sock, out >>

\* connection_status_handler: the arduino_status broadcast is scheduled on
\* the event loop.
NotifiedTwice(q, status) ==
    Append(Append(q, ArduinoStatus(status)), ArduinoStatus(status))
Notified(q, status) == Append(q, ArduinoStatus(status))

\* The join of stop() returns (the thread has ended, or the second has
\* passed); disconnect() closes the port and notifies the loss.
JoinReturn(c) ==
    /\ pc[c] = "join"
    /\ serial_connection' = "closed"
    /\ connected' = FALSE
    /\ sched' = Notified(sched, FALSE)
    /\ pc' = [pc EXCEPT ![c] = "reconnect"]
    /\ UNCHANGED << age, tries, nlines, joystick_values, led_values, running, comm_thread, threads,
                    serial_out, auth_enabled, lifeVars, clients, authenticated_clients,
                    client_info, lock_states_len, bcast,
                    authenticated, inq, nsent, sock, out >>
    /\ UNCHANGED handled

\* reset_arduino, last part: connect() opens the port (open_ok) or fails;
\* after a success start() sets running and starts a new reader thread.
NewThread == CHOOSE t \in ThreadIds :
                threads[t].pc = "none" /\ \A u \in ThreadIds : u < t => threads[u].pc # "none"
\* start(): the threads once the new reader thread runs its loop.
StartedNot(ths) == ths
Started(ths) == [ths EXCEPT ![NewThread].pc = "loop"]
ResetConnect(c, open_ok) ==
    /\ pc[c] = "reconnect"
    /\ IF open_ok
       THEN /\ serial_connection' = "open"
            /\ connected' = TRUE
            /\ running' = TRUE
            /\ threads' = Started(threads)
            /\ comm_thread' = NewThread
            /\ age' = 0
       ELSE UNCHANGED << age, serial_connection, connected, running, threads, comm_thread >>
    /\ sched' = Notified(sched, open_ok)
    /\ out' = [out EXCEPT ![c] = ResetReply(open_ok)]
    /\ pc' = [pc EXCEPT ![c] = "send"]
    /\ UNCHANGED << tries, nlines, joystick_values, led_values, serial_out, auth_enabled, lifeVars,
                    clients, authenticated_clients, client_info,
                    lock_states_len, bcast,
                    authenticated, inq, nsent, sock >>
    /\ UNCHANGED handled



\* ------------------------------------------------------------ start_server
\* The server and its controller as constructed, before main calls
\* start_server: no link, no reader thread, no listening socket.
InitStartup ==
    /\ joystick_values = InitJoysticks
    /\ led_values = InitLeds
    /\ connected = FALSE
    /\ running = FALSE
    /\ serial_connection = "None"
    /\ comm_thread = 0
    /\ threads = [t \in ThreadIds |-> NoThread]
    /\ serial_out = << >>
    /\ nlines = 0
    /\ age = 0
    /\ tries = 0
    /\ auth_enabled = FALSE
    /\ clients = {}
    /\ authenticated_clients = {}
    /\ client_info = [c \in Sessions |-> NoInfo]
    /\ lock_states_len = 0
    /\ server = "none"
    /\ stop_pc = "idle"
    /\ led_result = None
    /\ sched = << >>
    /\ bcast = [b \in BcIds |-> NoBcast]
    /\ pc = [c \in Sessions |-> "new"]
    /\ authenticated = [c \in Sessions |-> FALSE]
    /\ inq = [c \in Sessions |-> << >>]
    /\ nsent = 0
    /\ sock = [c \in Sessions |-> "closed"]
    /\ out = [c \in Sessions |-> NoMsg]
    /\ handled = NoHandled

\* start_server: connect() opens the port (open_ok) or fails, and on failure
\* start_server returns False before the callbacks are registered and main
\* ends; after a success the callbacks are registered, start() runs the first
\* reader thread and websockets.serve binds the socket (serve_ok) or raises,
\* in which case start_server returns False as well.
StartServer(open_ok, serve_ok) ==
    /\ server = "none"
    /\ IF open_ok
       THEN /\ serial_connection' = "open"
            /\ connected' = TRUE
            /\ age' = 0
            /\ running' = TRUE
            /\ threads' = Started(threads)
            /\ comm_thread' = NewThread
            /\ server' = IF serve_ok THEN "listening" ELSE "failed"
       ELSE /\ server' = "failed"
            /\ UNCHANGED << serial_connection, connected, age, running,
                            threads, comm_thread >>
    /\ UNCHANGED << joystick_values, led_values, serial_out, nlines, tries,
                    auth_enabled, clients, authenticated_clients, client_info,
                    lock_states_len, sched, bcast, stop_pc, led_result,
                    sesVars >>
\* ------------------------------------------------------------- stop_server
\* stop_server, first part: running is cleared and server.close() closes the
\* listening socket and the connections of the sessions; wait_closed then
\* waits for their handlers.
StopServer ==
    /\ LoopFree
    /\ server = "listening"
    /\ stop_pc = "idle"
    /\ server' = "closed"
    /\ sock' = [c \in Sessions |-> "closed"]
    /\ stop_pc' = "wait_closed"
    /\ UNCHANGED << ctlVars, auth_enabled, clients, authenticated_clients,
                    client_info, lock_states_len, sched, bcast, led_result,
                    pc, authenticated, inq, nsent, out, handled >>

\* wait_closed has returned (every handler has) and lockbox.disconnect() is
\* called: on a connected link stop() clears running and joins the reader
\* thread, otherwise nothing is done.
StopDisconnect ==
    /\ LoopFree
    /\ stop_pc = "wait_closed"
    /\ \A c \in Sessions : pc[c] \in {"new", "done"}
    /\ IF serial_connection # "None" /\ connected
       THEN /\ running' = FALSE
            /\ stop_pc' = "join"
       ELSE /\ stop_pc' = "notify"
            /\ UNCHANGED running
    /\ UNCHANGED << joystick_values, led_values, connected, serial_connection,
                    comm_thread, threads, serial_out, nlines, age, tries,
                    auth_enabled, clients, authenticated_clients, client_info,
                    lock_states_len, sched, bcast, server, led_result, sesVars >>

\* The join of stop() returns; disconnect() closes the port and notifies the
\* loss.
StopJoinReturn ==
    /\ stop_pc = "join"
    /\ Len(sched) < MaxSched
    /\ serial_connection' = "closed"
    /\ connected' = FALSE
    /\ sched' = Notified(sched, FALSE)
    /\ stop_pc' = "notify"
    /\ UNCHANGED << joystick_values, led_values, running, comm_thread, threads,
                    serial_out, nlines, age, tries,
                    auth_enabled, clients, authenticated_clients, client_info,
                    lock_states_len, bcast, server, led_result, sesVars >>

\* stop_server, last part: server_shutdown is sent to all clients,
\* authenticated or not; send_to_all_clients returns at once when there is
\* none.  Nothing follows the gather.
StopNotify ==
    /\ LoopFree
    /\ stop_pc = "notify"
    /\ bcast' = IF TargetClients(FALSE) = {} THEN bcast
                ELSE [bcast EXCEPT ![StopId] =
                        StartBcast(ServerShutdown, TargetClients(FALSE))]
    /\ stop_pc' = "notified"
    /\ UNCHANGED << ctlVars, auth_enabled, clients, authenticated_clients,
                    client_info, lock_states_len, sched, server, led_result,
                    sesVars >>
\* ------------------------------------------------- broadcasts of callbacks
\* The message of a scheduled broadcast as json.dumps serializes it when the
\* coroutine runs: a joystick_update holds the controller's own dictionary.
Serialized(m) ==
    IF m.type = "joystick_update" THEN JoystickUpdate(joystick_values) ELSE m

FreeCb == CHOOSE b \in CbIds :
            ~bcast[b].active /\ \A d \in CbIds : d > b => bcast[d].active

\* The event loop runs the oldest scheduled send_to_all_clients.
RunCallback ==
    /\ LoopFree
    /\ Len(sched) > 0
    /\ \E b \in CbIds : ~bcast[b].active
    /\ sched' = Tail(sched)
    /\ bcast' = IF TargetClients(TRUE) = {} THEN bcast
                ELSE [bcast EXCEPT ![FreeCb] =
                        StartBcast(Serialized(Head(sched)), TargetClients(TRUE))]
    /\ UNCHANGED << ctlVars, auth_enabled, lifeVars, clients, authenticated_clients,
                    client_info, lock_states_len, sesVars >>

\* The gather of a scheduled broadcast returns.
CallbackDone(b) ==
    /\ LoopFree
    /\ b \in CbIds
    /\ bcast[b].active
    /\ bcast[b].todo = {}
    /\ bcast' = [bcast EXCEPT ![b] = NoBcast]
    /\ UNCHANGED << ctlVars, auth_enabled, lifeVars, clients, authenticated_clients,
                    client_info, lock_states_len, sched, sesVars >>

\* -------------------------------------------------------- reader threads
\* _communication_loop: the loop ends when running is False.
ReaderExit(t) ==
    /\ threads[t].pc = "loop"
    /\ ~running
    /\ threads' = [threads EXCEPT ![t] = [@ EXCEPT !.pc = "exit", !.vals = << >>]]
    /\ UNCHANGED << age, tries, nlines, joystick_values, led_values, connected, running,
                    serial_connection, comm_thread, serial_out, srvVars, sesVars >>

\* The check at the top of the loop: more than data_timeout seconds have
\* passed since last_data_time.
TimedOutEarly == age >= DataTimeout
TimedOut == age > DataTimeout

\* One more reconnection attempt since the last line.
MoreTries == IF tries < MaxTries THEN tries + 1 ELSE tries

\* readline().decode('utf-8'): a line with a byte that is no UTF-8 (BadByte)
\* raises UnicodeDecodeError, which the loop logs and skips.
BadByte == "0xFF"
Decodes(line) == \A i \in 1 .. Len(line) : line[i] # BadByte

\* `if line:` and what follows the processing of the line: last_data_time and
\* reconnect_attempts are reset for any text that is not empty.
ResetsTimerOnFrame(line) == ParseFrame(line) # None
ResetsTimer(line) == Len(line) > 0

\* A non-empty line is read from the connected port and handed to
\* _process_arduino_message: six integers are parsed, or the line is dropped.
\* Once the line is processed last_data_time is now and reconnect_attempts
\* is 0: at once for a line that is dropped, after the callback otherwise.
\* A line that does not decode changes nothing.
ReaderRead(t, line) ==
    /\ threads[t].pc = "loop"
    /\ running
    /\ connected
    /\ ~TimedOut
    /\ serial_connection = "open"
    /\ Len(line) > 0
    /\ nlines < MaxLines
    /\ nlines' = nlines + 1
    /\ IF ~Decodes(line) \/ (ParseFrame(line) = None /\ ~ResetsTimer(line))
       THEN UNCHANGED << threads, age, tries >>
       ELSE IF ParseFrame(line) = None
       THEN /\ threads' = [threads EXCEPT ![t].attempts = 0]
            /\ age' = 0
            /\ tries' = 0
       ELSE /\ threads' = [threads EXCEPT ![t].pc = "apply",
                                          ![t].vals = ParseFrame(line)[1],
                                          ![t].step = 0]
            /\ UNCHANGED << age, tries >>
    /\ UNCHANGED << joystick_values, led_values, connected, running,
                    serial_connection, comm_thread, serial_out, srvVars, sesVars >>

\* The value stored under a key: the parsed integer as it is.
StoredJoystick(v) == v

\* The next of the nine assignments to joystick_values.
ReaderAssign(t) ==
    /\ threads[t].pc = "apply"
    /\ threads[t].step < NumAssign
    /\ LET i == threads[t].step + 1
       IN joystick_values' = [joystick_values EXCEPT
                ![AssignKey[i]] = StoredJoystick(threads[t].vals[AssignSrc[i]])]
    /\ threads' = [threads EXCEPT ![t].step = @ + 1]
    /\ UNCHANGED << age, tries, nlines, led_values, connected, running, serial_connection,
                    comm_thread, serial_out, srvVars, sesVars >>

\* After the ninth assignment joystick_callback schedules the joystick_update
\* broadcast and the thread returns to its loop.  The message holds the
\* controller's dictionary; frame is history, the six integers of the line
\* whose callback this is.
ScheduledUpdate(vals) == [type |-> "joystick_update", frame |-> vals]
ReaderCallback(t) ==
    /\ threads[t].pc = "apply"
    /\ threads[t].step = NumAssign
    /\ Len(sched) < MaxSched
    /\ sched' = Append(sched, ScheduledUpdate(threads[t].vals))
    /\ threads' = [threads EXCEPT ![t].pc = "loop", ![t].step = 0, ![t].attempts = 0]
    /\ age' = 0
    /\ tries' = 0
    /\ UNCHANGED << nlines, joystick_values, led_values, connected, running,
                    serial_connection, comm_thread, serial_out,
                    auth_enabled, lifeVars, clients, authenticated_clients, client_info,
                    lock_states_len, bcast, sesVars >>

\* ------------------------------------------- the link is lost and retried
\* A second passes without a line from the device.
Tick ==
    /\ age <= DataTimeout
    /\ age' = age + 1
    /\ UNCHANGED << joystick_values, led_values, connected, running,
                    serial_connection, comm_thread, threads, serial_out, nlines,
                    tries, srvVars, sesVars >>

\* The data timeout: the link is marked not connected, the loss is notified
\* and _attempt_reconnect closes the port and sleeps reconnect_delay.  The
\* attempt is not counted in reconnect_attempts.
ReaderTimeout(t) ==
    /\ threads[t].pc = "loop"
    /\ running
    /\ connected
    /\ TimedOut
    /\ Len(sched) < MaxSched
    /\ connected' = FALSE
    /\ sched' = Notified(sched, FALSE)
    /\ serial_connection' = "closed"
    /\ threads' = [threads EXCEPT ![t].pc = "reconnect"]
    /\ tries' = MoreTries
    /\ UNCHANGED << joystick_values, led_values, running, comm_thread,
                    serial_out, nlines, age,
                    auth_enabled, lifeVars, clients, authenticated_clients, client_info,
                    lock_states_len, bcast, sesVars >>

\* in_waiting raises SerialException: the link is marked not connected and
\* the loss is notified; below max_reconnect_attempts the attempt is counted
\* and _attempt_reconnect closes the port and sleeps, at the maximum the loop
\* is left.
ReaderSerialError(t) ==
    /\ threads[t].pc = "loop"
    /\ running
    /\ connected
    /\ ~TimedOut
    /\ Len(sched) < MaxSched
    /\ connected' = FALSE
    /\ sched' = Notified(sched, FALSE)
    /\ IF threads[t].attempts < MaxReconnectAttempts
       THEN /\ threads' = [threads EXCEPT ![t].pc = "reconnect",
                                          ![t].attempts = @ + 1]
            /\ serial_connection' = "closed"
            /\ tries' = MoreTries
       ELSE /\ threads' = [threads EXCEPT ![t].pc = "exit"]
            /\ UNCHANGED << serial_connection, tries >>
    /\ UNCHANGED << joystick_values, led_values, running, comm_thread,
                    serial_out, nlines, age,
                    auth_enabled, lifeVars, clients, authenticated_clients, client_info,
                    lock_states_len, bcast, sesVars >>

\* The sleep of _attempt_reconnect is over and connect() opens the port
\* (open_ok) or fails; either way the outcome is notified and the thread is
\* back at the top of its loop.
ReaderReconnect(t, open_ok) ==
    /\ threads[t].pc = "reconnect"
    /\ Len(sched) < MaxSched
    /\ IF open_ok
       THEN /\ serial_connection' = "open"
            /\ connected' = TRUE
            /\ age' = 0
       ELSE UNCHANGED << serial_connection, connected, age >>
    /\ sched' = Notified(sched, open_ok)
    /\ threads' = [threads EXCEPT ![t].pc = "loop"]
    /\ UNCHANGED << joystick_values, led_values, running, comm_thread,
                    serial_out, nlines, tries,
                    auth_enabled, lifeVars, clients, authenticated_clients, client_info,
                    lock_states_len, bcast, sesVars >>

\* ------------------------------------------------- direct LED calls
\* set_led_values called on the controller itself.
SetLedValues(l1, l2, l3, write_ok) ==
    /\ led_values' = StoreLeds(led_values, l1, l2, l3)
    /\ serial_out' = IF LedWriteDone(write_ok)
                     THEN LedCommand(StoreLeds(led_values, l1, l2, l3))
                     ELSE serial_out
    /\ led_result' = Some(LedWriteDone(write_ok))
    /\ UNCHANGED << age, tries, nlines, joystick_values, connected, running,
                    serial_connection, comm_thread, threads,
                    auth_enabled, clients, authenticated_clients, client_info,
                    lock_states_len, sched, bcast, server, stop_pc, sesVars >>


\* ------------------------------------------------------- the synthetic source
\* _drift_value: the value moved by the drift drawn and kept in the analog
\* range.
DriftValueNoCeiling(current_value, drift) == Max(JoyLow, current_value + drift)
DriftValue(current_value, drift) ==
    Max(JoyLow, Min(JoyHigh, current_value + drift))

\* One turn of _simulation_loop: _update_joystick_values drifts each of the
\* nine values by its own draw and last_data_time is set; no callback is set
\* on a simulator as constructed.
SimTick(drifts) ==
    /\ running
    /\ joystick_values' =
            [k \in JoyKeys |-> DriftValue(joystick_values[k], drifts[k])]
    /\ age' = 0
    /\ UNCHANGED << led_values, connected, running, serial_connection,
                    comm_thread, threads, serial_out, nlines, tries,
                    srvVars, sesVars >>
\* ------------------------------------------------------------------ inputs
\* Frames of the device: the example of the specification, the ends of the
\* range, and readings outside the range.
FrameFields ==
    { << 100, 200, 300, 400, 500, 600 >>,
      << 0, 1023, 1, 1022, 2, 1021 >>,
      << 0 - 5, 2000, 0, 1024, 0 - 1, 1023 >> }
GoodLines == { JLine(f) : f \in FrameFields }
BadLines ==
    { << "J", "1", ",", "2" >>,
      << "<", "L", "1", ",", "2", ",", "3", ">" >>,
      << "<", "J", ">" >>,
      JLine(<< 1, 2, 3, 4, 5 >>),
      << "<", "J", "1", ",", "2", ",", "x", ",", "4", ",", "5", ",", "6", ">" >> }
Lines == GoodLines \cup BadLines

\* joystick dictionary a test client sends in its own joystick_update
ClientJoysticks == [k \in JoyKeys |-> 7]

Tokens == { None, Some(""), Some("user"), Some(DEFAULT_ADMIN_TOKEN) }

\* Messages of the one client of the bridge specification: every kind.
BridgeMsgs ==
    { AuthMsg(tok) : tok \in Tokens }
    \cup { LedControl(Some(999), None, None),
           ClientMsg(Some("ping")), ClientMsg(Some("get_state")),
           ClientJoystickUpdate(ClientJoysticks), ClientMsg(Some("led_update")),
           InvalidJson, NonObject, ClientMsg(None) }
    \cup { AdminCommand(Some(cmd)) : cmd \in AdminCommands \cup {"reboot"} }

\* Lines of the device in the bridge specification.
BridgeLines == { JLine(<< 100, 200, 300, 400, 500, 600 >>) }

\* Messages of the client of the frame specification.
FrameMsgs == { ClientMsg(Some("get_state")) }

\* Messages of the clients of the session specification.
HubMsgs ==
    { AuthMsg(tok) : tok \in Tokens }
    \cup { LedControl(Some(999), None, None),
           LedControl(None, Some(0 - 5), Some(128)),
           ClientMsg(Some("get_state")), InvalidJson }

\* LED arguments of the LED specification: any magnitude and sign.
LedArgs == { None, Some(0 - 2000000000), Some(2000000000) }
\* led_control messages of the LED specification: the example of the
\* specification, values next to the ends of the range, values in the range.
LedMsgs ==
    { LedControl(Some(999), None, None),
      LedControl(None, Some(0 - 1), Some(256)),
      LedControl(Some(128), Some(255), Some(0)) }

\* ---------------------------------------------------------- specifications
\* Sessions, authentication and broadcasts, NumClients clients.
Next ==
    \/ \E c \in Sessions : Connect(c)
    \/ \E c \in Sessions, m \in HubMsgs : ClientSend(c, m)
    \/ \E c \in Sessions : ClientClose(c)
    \/ \E c \in Sessions : HandleInvalidJson(c)
    \/ \E c \in Sessions : HandleDropped(c)
    \/ \E c \in Sessions : HandleAuth(c)
    \/ \E c \in Sessions : HandleLedControl(c, TRUE)
    \/ \E c \in Sessions : HandleQuery(c)
    \/ \E c \in Sessions : SendDone(c)
    \/ \E b \in BcIds, t \in Sessions : TaskSend(b, t)
    \/ \E c \in Sessions : GatherDone(c)
    \/ \E c \in Sessions : HandlerExit(c)
Spec == Init /\ [][Next]_vars

\* The bridge: the reader threads and one client that sends every kind of
\* message.
BridgeClients == {1}
NextBridge ==
    \/ \E c \in BridgeClients : Connect(c)
    \/ \E c \in BridgeClients, m \in BridgeMsgs : ClientSend(c, m)
    \/ \E c \in BridgeClients : ClientClose(c)
    \/ \E c \in BridgeClients : HandleInvalidJson(c)
    \/ \E c \in BridgeClients : HandleDropped(c)
    \/ \E c \in BridgeClients : HandleAuth(c)
    \/ \E c \in BridgeClients : HandleLedControl(c, TRUE)
    \/ \E c \in BridgeClients : HandleQuery(c)
    \/ \E c \in BridgeClients : HandleAdminQuery(c, TRUE, TRUE)
    \/ \E c \in BridgeClients : HandleResetArduino(c)
    \/ \E c \in BridgeClients : JoinReturn(c)
    \/ \E c \in BridgeClients, ok \in BOOLEAN : ResetConnect(c, ok)
    \/ \E c \in BridgeClients : SendDone(c)
    \/ \E b \in BcIds, t \in BridgeClients : TaskSend(b, t)
    \/ \E c \in BridgeClients : GatherDone(c)
    \/ \E c \in BridgeClients : HandlerExit(c)
    \/ RunCallback
    \/ \E b \in CbIds : CallbackDone(b)
    \/ \E t \in ThreadIds : ReaderExit(t)
    \/ \E t \in ThreadIds, line \in BridgeLines :
            nlines < MaxBridgeLines /\ ReaderRead(t, line)
    \/ \E t \in ThreadIds : ReaderAssign(t)
    \/ \E t \in ThreadIds : ReaderCallback(t)
SpecBridge == Init /\ [][NextBridge]_vars

\* The frames: the first reader thread reads any line while one client asks
\* for the state.
NextFrames ==
    \/ \E line \in Lines : ReaderRead(1, line)
    \/ ReaderAssign(1)
    \/ ReaderCallback(1)
    \/ RunCallback
    \/ \E b \in CbIds : CallbackDone(b)
    \/ \E c \in BridgeClients : Connect(c)
    \/ \E c \in BridgeClients, m \in FrameMsgs : ClientSend(c, m)
    \/ \E c \in BridgeClients : ClientClose(c)
    \/ \E c \in BridgeClients : HandleQuery(c)
    \/ \E c \in BridgeClients : SendDone(c)
    \/ \E b \in BcIds, t \in BridgeClients : TaskSend(b, t)
    \/ \E c \in BridgeClients : HandlerExit(c)
\* The server is started with its default, authentication disabled.
InitOpen == Init /\ ~auth_enabled
SpecFrames == InitOpen /\ [][NextFrames]_vars

\* The LED values: direct calls and led_control messages of one client, with
\* arguments of any magnitude and sign.
NextLed ==
    \/ \E l1 \in LedArgs, l2 \in LedArgs, l3 \in LedArgs, w \in BOOLEAN :
            SetLedValues(l1, l2, l3, w)
    \/ \E c \in BridgeClients : Connect(c)
    \/ \E c \in BridgeClients, m \in LedMsgs : ClientSend(c, m)
    \/ \E c \in BridgeClients, w \in BOOLEAN : HandleLedControl(c, w)
    \/ \E c \in BridgeClients : SendDone(c)
    \/ \E b \in BcIds, t \in BridgeClients : TaskSend(b, t)
    \/ \E c \in BridgeClients : GatherDone(c)
SpecLed == InitOpen /\ [][NextLed]_vars

\* The LED values with channels that are no numbers: two sessions send
\* led_control messages, some of which make set_led_values raise part-way.
LedErrorMsgs ==
    { LedControl(Some(128), TextArg, None),
      LedControl(TextArg, Some(7), None),
      LedControl(Some(9), Some(7), TextArg),
      LedControl(Some(64), None, None) }
NextLedError ==
    \/ \E c \in Sessions : Connect(c)
    \/ \E c \in Sessions, m \in LedErrorMsgs : ClientSend(c, m)
    \/ \E c \in Sessions, w \in BOOLEAN : HandleLedControl(c, w)
    \/ \E c \in Sessions : SendDone(c)
    \/ \E b \in BcIds, t \in Sessions : TaskSend(b, t)
    \/ \E c \in Sessions : GatherDone(c)
SpecLedError == InitOpen /\ [][NextLedError]_vars
\* The link alone: the first reader thread, the seconds that pass, lines that
\* are read, timeouts, serial errors and reconnection attempts; the
\* notifications are taken by the event loop, no client is connected.
LinkLines == { << "<", "J", ">" >> }
NextLink ==
    \/ Tick
    \/ \E line \in LinkLines : ReaderRead(1, line)
    \/ ReaderTimeout(1)
    \/ ReaderSerialError(1)
    \/ \E ok \in BOOLEAN : ReaderReconnect(1, ok)
    \/ RunCallback
SpecLink == InitOpen /\ [][NextLink]_vars



\* The link and its lines: text that is no frame, a frame, and a line that
\* does not decode, while the seconds pass and the link is lost and retried.
TextLines ==
    { << "<", "J", ">" >>, << "h", "i" >>, JLine(<< 100, 200, 300, 400, 500, 600 >>) }
NoiseLines == { << "<", BadByte, ">" >> }
NextNoise ==
    \/ Tick
    \/ \E line \in TextLines \cup NoiseLines : ReaderRead(1, line)
    \/ ReaderAssign(1)
    \/ ReaderCallback(1)
    \/ ReaderTimeout(1)
    \/ ReaderSerialError(1)
    \/ \E ok \in BOOLEAN : ReaderReconnect(1, ok)
    \/ RunCallback
SpecNoise == InitOpen /\ [][NextNoise]_vars
\* The reset: one client authenticates with the admin token and sends
\* reset_arduino while the readers meet serial errors and reconnect.
ResetMsgs == { AuthMsg(Some(DEFAULT_ADMIN_TOKEN)), AdminCommand(Some("reset_arduino")) }
NextReset ==
    \/ \E c \in BridgeClients : Connect(c)
    \/ \E c \in BridgeClients, m \in ResetMsgs : ClientSend(c, m)
    \/ \E c \in BridgeClients : HandleDropped(c)
    \/ \E c \in BridgeClients : HandleAuth(c)
    \/ \E c \in BridgeClients : HandleResetArduino(c)
    \/ \E c \in BridgeClients : JoinReturn(c)
    \/ \E c \in BridgeClients, ok \in BOOLEAN : ResetConnect(c, ok)
    \/ \E c \in BridgeClients : SendDone(c)
    \/ \E b \in BcIds, t \in BridgeClients : TaskSend(b, t)
    \/ \E c \in BridgeClients : GatherDone(c)
    \/ RunCallback
    \/ \E b \in CbIds : CallbackDone(b)
    \/ \E t \in ThreadIds : ReaderExit(t)
    \/ \E t \in ThreadIds : ReaderSerialError(t)
    \/ \E t \in ThreadIds, ok \in BOOLEAN : ReaderReconnect(t, ok)
\* The server is started with authentication enabled.
InitSecured == Init /\ auth_enabled
SpecReset == InitSecured /\ [][NextReset]_vars

\* The telemetry: two sessions connect, authenticate or fail to, ask for the
\* state and set an LED while the reader reports a frame and the loss and
\* the return of the link.  The sessions stay connected.
TelemetryMsgs ==
    { AuthMsg(Some("user")), AuthMsg(Some("")),
      ClientMsg(Some("get_state")), LedControl(Some(999), None, None) }
NextTelemetry ==
    \/ \E c \in Sessions : Connect(c)
    \/ \E c \in Sessions, m \in TelemetryMsgs :
            nsent < MaxTelemetryMsgs /\ ClientSend(c, m)
    \/ \E c \in Sessions : HandleDropped(c)
    \/ \E c \in Sessions : HandleAuth(c)
    \/ \E c \in Sessions : HandleLedControl(c, TRUE)
    \/ \E c \in Sessions : HandleQuery(c)
    \/ \E c \in Sessions : SendDone(c)
    \/ \E b \in BcIds, t \in Sessions : TaskSend(b, t)
    \/ \E c \in Sessions : GatherDone(c)
    \/ RunCallback
    \/ \E b \in CbIds : CallbackDone(b)
    \/ \E line \in BridgeLines : nlines < MaxBridgeLines /\ ReaderRead(1, line)
    \/ ReaderAssign(1)
    \/ ReaderCallback(1)
    \/ tries < MaxOutages /\ ReaderSerialError(1)
    \/ \E ok \in BOOLEAN : ReaderReconnect(1, ok)
SpecTelemetry == InitSecured /\ [][NextTelemetry]_vars

\* The admin: session 1 authenticates with the admin token, sets an LED and
\* sends admin commands while session 2 authenticates as a user and the link
\* is lost and retried.
AdminMsgs ==
    { AuthMsg(Some(DEFAULT_ADMIN_TOKEN)), LedControl(Some(999), None, None) }
    \cup { AdminCommand(Some(cmd)) : cmd \in AdminCommands }
UserMsgs == { AuthMsg(Some("user")) }
NextAdmin ==
    \/ \E c \in Sessions : Connect(c)
    \/ \E m \in AdminMsgs : ClientSend(1, m)
    \/ \E m \in UserMsgs : ClientSend(2, m)
    \/ \E c \in Sessions : HandleDropped(c)
    \/ \E c \in Sessions : HandleAuth(c)
    \/ \E c \in Sessions : HandleLedControl(c, TRUE)
    \/ \E c \in Sessions, w1 \in BOOLEAN, w2 \in BOOLEAN : HandleAdminQuery(c, w1, w2)
    \/ \E c \in Sessions : HandleResetArduino(c)
    \/ \E c \in Sessions : JoinReturn(c)
    \/ \E c \in Sessions, ok \in BOOLEAN : ResetConnect(c, ok)
    \/ \E c \in Sessions : SendDone(c)
    \/ \E b \in BcIds, t \in Sessions : TaskSend(b, t)
    \/ \E c \in Sessions : GatherDone(c)
    \/ RunCallback
    \/ \E b \in CbIds : CallbackDone(b)
    \/ \E t \in ThreadIds : ReaderExit(t)
    \/ tries < MaxOutages /\ ReaderSerialError(1)
    \/ \E ok \in BOOLEAN : ReaderReconnect(1, ok)
SpecAdmin == InitSecured /\ [][NextAdmin]_vars

\* The synthetic source: the draws of one tick are the same for the nine
\* values, or one for joystick1 and its opposite for the others; each draw is
\* within -max_drift .. max_drift.
SimDrifts == { 0 - MaxDrift, 0 - 3, 0, 3, MaxDrift }
SimDraws ==
    { [k \in JoyKeys |-> d] : d \in SimDrifts }
    \cup { [k \in JoyKeys |-> IF k = "joystick1" THEN d ELSE 0 - d] :
                d \in { 0 - MaxDrift, MaxDrift } }
NextSim == \E drifts \in SimDraws : SimTick(drifts)
SpecSim == InitOpen /\ [][NextSim]_vars

\* The LED calls on a link that is lost and retried: set_led_values is called
\* directly while the reader meets serial errors and reconnects.
NextLedCall ==
    \/ \E l1 \in LedArgs, l2 \in LedArgs, l3 \in LedArgs, w \in BOOLEAN :
            SetLedValues(l1, l2, l3, w)
    \/ ReaderSerialError(1)
    \/ \E ok \in BOOLEAN : ReaderReconnect(1, ok)
    \/ RunCallback
SpecLedCall == InitOpen /\ [][NextLedCall]_vars

\* The shutdown: two sessions connect and authenticate, or do not, the link
\* is lost and retried, and the server is stopped.
StopMsgs == { AuthMsg(Some("user")) }
NextStop ==
    \/ \E c \in Sessions : Connect(c)
    \/ \E c \in Sessions, m \in StopMsgs :
            nsent < MaxTelemetryMsgs /\ ClientSend(c, m)
    \/ \E c \in Sessions : ClientClose(c)
    \/ \E c \in Sessions : HandleDropped(c)
    \/ \E c \in Sessions : HandleAuth(c)
    \/ \E c \in Sessions : SendDone(c)
    \/ \E b \in BcIds, t \in Sessions : TaskSend(b, t)
    \/ \E c \in Sessions : HandlerExit(c)
    \/ RunCallback
    \/ \E b \in CbIds : CallbackDone(b)
    \/ \E t \in ThreadIds : ReaderExit(t)
    \/ tries < MaxOutages /\ ReaderSerialError(1)
    \/ \E ok \in BOOLEAN : ReaderReconnect(1, ok)
    \/ StopServer
    \/ StopDisconnect
    \/ StopJoinReturn
    \/ StopNotify
SpecStop == InitSecured /\ [][NextStop]_vars

\* The startup: main starts the server, and once it listens one client asks
\* for the state while the reader reads a frame.
NextStartup ==
    \/ \E open_ok \in BOOLEAN, serve_ok \in BOOLEAN : StartServer(open_ok, serve_ok)
    \/ \E c \in BridgeClients : Connect(c)
    \/ \E c \in BridgeClients, m \in FrameMsgs : ClientSend(c, m)
    \/ \E c \in BridgeClients : ClientClose(c)
    \/ \E c \in BridgeClients : HandleQuery(c)
    \/ \E c \in BridgeClients : SendDone(c)
    \/ \E b \in BcIds, t \in BridgeClients : TaskSend(b, t)
    \/ \E c \in BridgeClients : HandlerExit(c)
    \/ \E line \in BridgeLines : nlines < MaxBridgeLines /\ ReaderRead(1, line)
    \/ ReaderAssign(1)
    \/ ReaderCallback(1)
    \/ RunCallback
    \/ \E b \in CbIds : CallbackDone(b)
SpecStartup == InitStartup /\ [][NextStartup]_vars
\* The link with its scheduling: the clock advances, the reader thread takes
\* the steps its loop has ready (the timeout branch, the end of the sleep of
\* _attempt_reconnect) and the event loop runs the callbacks it was handed.
\* Lines and serial errors come from the device and are not forced.
SpecLinkFair ==
    /\ InitOpen
    /\ [][NextLink]_vars
    /\ WF_vars(Tick)
    /\ WF_vars(ReaderTimeout(1))
    /\ WF_vars(\E ok \in BOOLEAN : ReaderReconnect(1, ok))
    /\ WF_vars(RunCallback)
\* The broadcast hub with a peer that stops reading: the sessions connect
\* without authentication, send led_control, stall or close; the handlers
\* update the LEDs and broadcast led_update with gather.
StallMsgs == { LedControl(Some(128), Some(255), Some(0)) }
NextStall ==
    \/ \E c \in Sessions : Connect(c)
    \/ \E c \in Sessions, m \in StallMsgs : ClientSend(c, m)
    \/ \E c \in Sessions : ClientStall(c)
    \/ \E c \in Sessions : ClientClose(c)
    \/ \E c \in Sessions, w \in BOOLEAN : HandleLedControl(c, w)
    \/ \E c \in Sessions : SendDone(c)
    \/ \E b \in BcIds, t \in Sessions : TaskSend(b, t)
    \/ \E c \in Sessions : GatherDone(c)
    \/ \E c \in Sessions : HandlerExit(c)
SpecStall == InitOpen /\ [][NextStall]_vars
\* The event loop runs every task that is ready: a handler that has a message
\* or a closed socket, a send that can return or raise, a gather whose tasks
\* are done. What the peers do (send, stop reading, close) is not forced.
SpecStallFair ==
    /\ SpecStall
    /\ \A c \in Sessions :
            /\ WF_vars(\E w \in BOOLEAN : HandleLedControl(c, w))
            /\ WF_vars(SendDone(c))
            /\ WF_vars(GatherDone(c))
            /\ WF_vars(HandlerExit(c))
    /\ \A b \in BcIds, t \in Sessions : WF_vars(TaskSend(b, t))
\* ------------------------------------------------------------------ claims
\* The handler of session c takes the message at the head of its socket.
Takes(c) == Taking(c) /\ Len(inq'[c]) < Len(inq[c])

\* The nine values a frame <Ja,b,c,d,e,f> stands for, f = << a, b, c, d, e, f >>.
Decoded(f) ==
    [joystick1 |-> f[1], joystick1X |-> f[1], joystick1Y |-> f[2],
     joystick2 |-> f[3], joystick2X |-> f[3], joystick2Y |-> f[4],
     joystick3 |-> f[5], joystick3X |-> f[5], joystick3Y |-> f[6]]

\* C1: after any sequence of set_led_values calls, made directly or through
\* led_control messages, with integer arguments of any magnitude and sign,
\* every LED channel holds an integer in 0..255.
C1_LedRange == \A k \in LedKeys : led_values[k] \in 0 .. 255
\* Arguments below 0 and above 255 have been stored, by a direct call and by
\* a led_control message.
C1_Witness ==
    /\ handled.msg = LedControl(None, Some(0 - 1), Some(256))
    /\ pc[1] = "gather"
    /\ led_values = [led1 |-> 255, led2 |-> 0, led3 |-> 255]

\* C2: set_led_values changes only the channels it is given: a led_control
\* message leaves every channel it does not name as it was, and the message
\* that holds only led1 = 999 sets led1 to 255 and leaves led2 and led3.
C2_PartialUpdate ==
    [][\A c \in Sessions :
        (Takes(c) /\ Cur(c).json = "object" /\ Cur(c).type = Some("led_control")
            /\ (authenticated[c] \/ ~auth_enabled))
        => /\ \A k \in LedKeys :
                Cur(c).leds[k] = None => led_values'[k] = led_values[k]
           /\ Cur(c).leds = [led1 |-> << 999 >>, led2 |-> << >>, led3 |-> << >>]
                => led_values' = [led_values EXCEPT !["led1"] = 255]]_vars
\* The message with only led1 = 999 has been handled while led2 and led3
\* held a value set before.
C2_Witness ==
    /\ handled.msg = LedControl(Some(999), None, None)
    /\ pc[1] = "gather"
    /\ bcast[1].msg.type = "led_update"
    /\ bcast[1].msg.leds = [led1 |-> 255, led2 |-> 255, led3 |-> 255]

\* C3: each of the nine joystick values is in 0..1023 in every reachable
\* state; integers of a frame outside that range are clamped or rejected and
\* never stored as they are.
C3_JoystickRange == \A k \in JoyKeys : joystick_values[k] \in 0 .. 1023

\* C4: the joystick values change only when the reader applies a frame of
\* the device; the handling of a client message of any type (a client's own
\* joystick_update, led_control, get_state, ping, auth, admin_command) leaves
\* them as they are.
C4_OnlyFrames ==
    [][/\ joystick_values' # joystick_values
            => \E t \in ThreadIds :
                    /\ threads[t].pc = "apply"
                    /\ threads'[t].step = threads[t].step + 1
       /\ \A c \in Sessions : Takes(c) => joystick_values' = joystick_values]_vars
\* A joystick_update sent by a client has reached process_client_message and
\* the values are those of the frame read before.
C4_Witness ==
    /\ handled.msg = ClientJoystickUpdate(ClientJoysticks)
    /\ handled.branch = "unhandled"
    /\ joystick_values = Decoded(<< 100, 200, 300, 400, 500, 600 >>)

\* C5: once a frame <Ja,b,c,d,e,f> is decoded, joystick1 = joystick1X = a,
\* joystick1Y = b, joystick2 = joystick2X = c, joystick2Y = d,
\* joystick3 = joystick3X = e, joystick3Y = f, and the reply to the next
\* get_state carries exactly these values.
C5_FrameDecoding ==
    /\ [](threads[1].pc = "loop" /\ threads[1].vals # << >>
            => joystick_values = Decoded(threads[1].vals))
    /\ [][\A c \in Sessions :
            (/\ Takes(c)
             /\ Cur(c).json = "object" /\ Cur(c).type = Some("get_state")
             /\ (authenticated[c] \/ ~auth_enabled)
             /\ threads[1].pc = "loop" /\ threads[1].vals # << >>)
            => /\ out'[c].type = "state"
               /\ out'[c].joysticks = Decoded(threads[1].vals)]_vars
\* The frame <J100,200,300,400,500,600> is decoded and the reply to a
\* get_state that followed is on its way.
C5_Witness ==
    /\ threads[1].pc = "loop"
    /\ threads[1].vals = << 100, 200, 300, 400, 500, 600 >>
    /\ handled.msg.type = Some("get_state")
    /\ pc[1] = "send"
    /\ out[1].type = "state"
    /\ out[1].joysticks =
            [joystick1 |-> 100, joystick1X |-> 100, joystick1Y |-> 200,
             joystick2 |-> 300, joystick2X |-> 300, joystick2Y |-> 400,
             joystick3 |-> 500, joystick3X |-> 500, joystick3Y |-> 600]

\* C6: the update of the joystick values is atomic per frame for concurrent
\* readers: the snapshot of a state reply holds the values of one frame (or
\* the initial values), never a mix of two.
C6_SnapshotOfOneFrame ==
    \A c \in Sessions :
        out[c].type = "state"
        => \/ out[c].joysticks = InitJoysticks
           \/ \E f \in FrameFields : out[c].joysticks = Decoded(f)

\* C7: authenticated_clients is a subset of clients in every reachable state,
\* under any interleaving of register, authenticate, unregister by a failed
\* send, and a handler that goes on with the messages already received.
C7_AuthenticatedAreClients == authenticated_clients \subseteq clients

\* C8: one led_control is fanned out to every authenticated session: each
\* of them, the sender included, is sent the led_update once, it carries the
\* LED values as they are after the update, and each session whose socket is
\* open has received it when the broadcast ends.
C8_FanOut ==
    /\ [][\A c \in Sessions :
            (/\ Takes(c)
             /\ Cur(c).json = "object" /\ Cur(c).type = Some("led_control")
             /\ (authenticated[c] \/ ~auth_enabled)
             /\ authenticated_clients # {})
            => /\ bcast'[c].active
               /\ bcast'[c].targets = authenticated_clients
               /\ bcast'[c].todo = authenticated_clients
               /\ bcast'[c].ok = {}
               /\ bcast'[c].msg = [type |-> "led_update", leds |-> led_values']]_vars
    /\ [][\A c \in Sessions :
            bcast[c].active /\ bcast'[c].active
            => /\ bcast'[c].msg = bcast[c].msg
               /\ bcast'[c].todo \subseteq bcast[c].todo
               /\ bcast'[c].ok \subseteq bcast[c].ok \cup (bcast[c].todo \ bcast'[c].todo)]_vars
    /\ [](\A c \in Sessions :
            bcast[c].active /\ bcast[c].msg.type = "led_update" /\ bcast[c].todo = {}
            => \A t \in bcast[c].targets : sock[t] = "open" => t \in bcast[c].ok)
\* Two authenticated sessions with open sockets, the sender one of them, have
\* both received the led_update of the message led1 = 999.
C8_Witness ==
    /\ handled.session = 1
    /\ handled.msg = LedControl(Some(999), None, None)
    /\ pc[1] = "gather"
    /\ bcast[1].todo = {}
    /\ bcast[1].targets = {1, 2}
    /\ bcast[1].ok = {1, 2}
    /\ bcast[1].msg = [type |-> "led_update",
                       leds |-> [led1 |-> 255, led2 |-> 0, led3 |-> 0]]

\* C9: a send that fails inside a broadcast touches only its session: that
\* session, and no other, leaves clients and authenticated_clients, and the
\* other targets still receive the message.
C9_Isolation ==
    /\ [][\A b \in BcIds, t \in Sessions :
            (/\ bcast[b].active /\ bcast'[b].active
             /\ t \in bcast[b].todo /\ t \notin bcast'[b].todo)
            => /\ bcast'[b].todo = bcast[b].todo \ {t}
               /\ IF sock[t] = "open"
                  THEN /\ bcast'[b].ok = bcast[b].ok \cup {t}
                       /\ clients' = clients
                       /\ authenticated_clients' = authenticated_clients
                  ELSE /\ bcast'[b].ok = bcast[b].ok
                       /\ clients' = clients \ {t}
                       /\ authenticated_clients' = authenticated_clients \ {t}]_vars
    /\ [](\A b \in BcIds :
            bcast[b].active /\ bcast[b].todo = {}
            => { t \in bcast[b].targets : sock[t] = "open" } \subseteq bcast[b].ok)
\* A broadcast to two sessions has ended: the send to session 2 failed and
\* removed it, session 1 received the message and is still registered.
C9_Witness ==
    /\ bcast[1].active
    /\ bcast[1].todo = {}
    /\ bcast[1].targets = {1, 2}
    /\ bcast[1].ok = {1}
    /\ 2 \notin clients \cup authenticated_clients
    /\ 1 \in clients \cap authenticated_clients

\* C10: with authentication enabled, a message of a session that has not
\* authenticated, other than an auth message that succeeds, is not processed:
\* no LED change, no entry in the log of lock states, no broadcast, no reply
\* to ping, get_state or admin_command.  With authentication disabled
\* messages are always processed.
C10_AuthGate ==
    [][\A c \in Sessions :
        Takes(c)
        => /\ (/\ auth_enabled
               /\ ~authenticated[c]
               /\ ~(Cur(c).json = "object" /\ Cur(c).type = Some("auth")
                        /\ Cur(c).token \notin {None, Some("")}))
              => /\ led_values' = led_values
                 /\ serial_out' = serial_out
                 /\ lock_states_len' = lock_states_len
                 /\ bcast' = bcast
                 /\ sched' = sched
                 /\ Cur(c).type \in {Some("ping"), Some("get_state"), Some("admin_command")}
                        => out'[c] = out[c] /\ pc'[c] = "recv"
           /\ (~auth_enabled /\ Cur(c).json = "object")
              => /\ Cur(c).type = Some("led_control")
                        => lock_states_len' = lock_states_len + 1
                 /\ Cur(c).type = Some("ping")
                        => out'[c] = [type |-> "pong"] /\ pc'[c] = "send"
                 /\ Cur(c).type = Some("get_state")
                        => out'[c].type = "state" /\ pc'[c] = "send"]_vars
\* With authentication enabled a led_control of a session that has not
\* authenticated has been taken and dropped.
C10_Witness ==
    /\ auth_enabled
    /\ ~authenticated[1]
    /\ handled.msg = LedControl(Some(999), None, None)
    /\ handled.branch = "not_authenticated"
    /\ led_values = InitLeds
    /\ lock_states_len = 0

C13_AuthToken ==
    [][\A c \in Sessions :
        (/\ Takes(c)
         /\ Cur(c).json = "object" /\ Cur(c).type = Some("auth")
         /\ ~authenticated[c] /\ c \in clients /\ c \notin authenticated_clients)
        => IF Cur(c).token \notin {<< >>, << "" >>}
           THEN /\ c \in authenticated_clients'
                /\ authenticated'[c]
                /\ client_info'[c].authenticated
                /\ client_info'[c].is_admin = (Cur(c).token = << "lockbox-admin" >>)
                /\ out'[c].type = "state"
           ELSE /\ c \notin authenticated_clients'
                /\ ~authenticated'[c]
                /\ ~client_info'[c].authenticated
                /\ ~client_info'[c].is_admin
                /\ out'[c] = [type |-> "auth_failed"]
                /\ pc'[c] = "send"
                /\ c \in clients'
                /\ sock'[c] = sock[c]]_vars
\* Session 1 has authenticated with the admin token and is admin; session 2
\* has sent an auth without a usable token and is being sent auth_failed,
\* still connected and not authenticated.
C13_Witness ==
    /\ 1 \in authenticated_clients
    /\ client_info[1].is_admin
    /\ handled.session = 2
    /\ handled.branch = "auth"
    /\ pc[2] = "send"
    /\ out[2] = [type |-> "auth_failed"]
    /\ 2 \in clients \ authenticated_clients
    /\ sock[2] = "open"

\* C14: on connect the first message sent to the new session is a full
\* state snapshot when authentication is disabled, the session being in the
\* authenticated set already, and is auth_required when authentication is
\* enabled, the session being in the connected set and not in the
\* authenticated set; after a later auth that succeeds the session is sent a
\* full state snapshot.
C14_FirstMessage ==
    [][\A c \in Sessions :
        /\ (pc[c] = "new" /\ pc'[c] # "new")
            => /\ pc'[c] = "send"
               /\ c \in clients'
               /\ IF auth_enabled
                  THEN /\ out'[c] = [type |-> "auth_required"]
                       /\ c \notin authenticated_clients'
                  ELSE /\ c \in authenticated_clients'
                       /\ out'[c].type = "state"
                       /\ out'[c].joysticks = joystick_values
                       /\ out'[c].leds = led_values
                       /\ out'[c].arduino_connected = connected
        /\ (/\ Takes(c)
            /\ Cur(c).json = "object" /\ Cur(c).type = Some("auth")
            /\ ~authenticated[c]
            /\ Cur(c).token \notin {<< >>, << "" >>})
            => /\ pc'[c] = "send"
               /\ out'[c].type = "state"
               /\ out'[c].joysticks = joystick_values
               /\ out'[c].leds = led_values
               /\ out'[c].arduino_connected = connected]_vars
\* With authentication enabled session 1 has just connected and is being
\* sent auth_required, and session 2 has authenticated and is being sent the
\* state snapshot.
C14_Witness ==
    /\ auth_enabled
    /\ pc[1] = "send"
    /\ out[1] = [type |-> "auth_required"]
    /\ 1 \in clients \ authenticated_clients
    /\ handled.session = 2
    /\ handled.branch = "auth"
    /\ pc[2] = "send"
    /\ out[2].type = "state"
    /\ 2 \in authenticated_clients

\* C15: a malformed client message (text that is no JSON, JSON that is no
\* object, a message without type, a message of an unknown type) is ignored:
\* it changes no LED, joystick or connection state, the session stays in the
\* connected set, and in the authenticated set if it was there, and the
\* handler goes on to the next message of the session.
C15_MalformedIgnored ==
    [][\A c \in Sessions :
        (/\ Takes(c)
         /\ \/ Cur(c).json # "object"
            \/ Cur(c).type = << >>
            \/ Cur(c).type[1] \notin
                    {"auth", "led_control", "ping", "get_state", "admin_command"})
        => /\ UNCHANGED << ctlVars, clients, authenticated_clients,
                           lock_states_len, sched, bcast >>
           /\ UNCHANGED << authenticated, sock, out >>
           /\ pc'[c] = "recv"
           /\ client_info'[c].present = client_info[c].present
           /\ client_info'[c].authenticated = client_info[c].authenticated
           /\ client_info'[c].is_admin = client_info[c].is_admin]_vars
\* Two messages were sent and both are taken: the first was text that is no
\* JSON (it is not counted), the second a ping that is being answered.
C15_Witness ==
    /\ ~auth_enabled
    /\ nsent = 2
    /\ inq[1] = << >>
    /\ client_info[1].messages_received = 1
    /\ handled.msg = ClientMsg(Some("ping"))
    /\ pc[1] = "send"
    /\ out[1] = [type |-> "pong"]
    /\ 1 \in clients \cap authenticated_clients

\* C16: from Connected, a gap without data longer than the data timeout and
\* a reconnection attempt that succeeds take the status from connected to
\* not connected and back to connected, with exactly one notification of the
\* loss (False) and then exactly one of the reconnection (True).
C16_Reconnection ==
    [][/\ (threads[1].pc = "loop" /\ threads'[1].pc = "reconnect" /\ age > 5)
            => /\ connected /\ ~connected'
               /\ sched' = Append(sched, [type |-> "arduino_status", connected |-> FALSE])
       /\ (threads[1].pc = "reconnect" /\ threads'[1].pc = "reconnect")
            => /\ ~connected /\ ~connected'
               /\ sched' = sched \/ (sched # << >> /\ sched' = Tail(sched))
       /\ (threads[1].pc = "reconnect" /\ threads'[1].pc = "loop" /\ connected')
            => /\ ~connected
               /\ sched' = Append(sched, [type |-> "arduino_status", connected |-> TRUE])]_vars
\* The timeout has passed once and the attempt that followed succeeded: the
\* link is connected again and the two notifications wait in their order.
C16_Witness ==
    /\ threads[1].pc = "loop"
    /\ connected
    /\ threads[1].attempts = 0
    /\ tries = 1
    /\ sched = << [type |-> "arduino_status", connected |-> FALSE],
                  [type |-> "arduino_status", connected |-> TRUE] >>

\* C17: with auto-reconnect enabled the number of reconnection attempts made
\* since a line was last received never exceeds the maximum of 5, on the
\* data-timeout path and on the serial-error path.
C17_AttemptCap == tries <= 5

\* C18: when a reconnection attempt has failed (the reader is back in its
\* loop with the link not connected) and fewer than the maximum of 5 attempts
\* have been made, a further reconnection attempt eventually starts.
C18_FurtherAttempt ==
    (/\ threads[1].pc = "loop" /\ running /\ ~connected
     /\ tries < MaxReconnectAttempts
     /\ threads[1].attempts < MaxReconnectAttempts)
        ~> (threads[1].pc = "reconnect" \/ connected)

\* C19: while the link is connected and the reader loop runs, more than
\* data_timeout seconds without data lead to the link being marked not
\* connected, and the step that marks it so schedules one status notification
\* (connected false); the reader never takes the timeout branch while the
\* time since the last data is at most data_timeout.
C19_DataTimeout ==
    /\ (connected /\ running /\ threads[1].pc = "loop" /\ age > DataTimeout)
          ~> ~connected
    /\ [][(/\ threads[1].pc = "loop" /\ threads'[1].pc = "reconnect"
           /\ threads'[1].attempts = threads[1].attempts)
             => /\ age > DataTimeout
                /\ connected /\ ~connected'
                /\ Len(sched') = Len(sched) + 1
                /\ sched'[Len(sched')] = ArduinoStatus(FALSE)]_vars
C19_Witness ==
    /\ ~connected /\ running
    /\ threads[1].pc = "reconnect" /\ threads[1].attempts = 0 /\ tries = 1
    /\ age = DataTimeout + 1
    /\ sched # << >> /\ sched[Len(sched)] = ArduinoStatus(FALSE)

\* The reader loop has given up: running is still set, no reader thread is
\* in its loop or in a reconnection attempt, and the link is not connected.
Exhausted ==
    /\ running /\ ~connected
    /\ threads[comm_thread].pc = "exit"
    /\ \A t \in ThreadIds : threads[t].pc \in {"none", "exit"}

\* C20: once the reader loop has given up the link stays not connected and
\* no reader starts a reconnection attempt, unless a reset_arduino of an admin
\* connects; a reset_arduino taken in that state goes straight to a new
\* connection attempt, and when that attempt succeeds (it notifies the
\* status connected) the port is open, the link is connected, running is set
\* and the new reader thread is in its loop; when it fails the loop stays
\* given up.
C20_ExhaustedUntilReset ==
    [][Exhausted =>
        /\ (\A c \in BridgeClients : ~(pc[c] = "reconnect" /\ pc'[c] = "send"))
              => /\ ~connected' /\ running'
                 /\ \A t \in ThreadIds : threads'[t].pc \in {"none", "exit"}
        /\ \A c \in BridgeClients :
              (Takes(c) /\ Dispatch(c, Cur(c)) = "reset_arduino")
                  => pc'[c] = "reconnect"
        /\ \A c \in BridgeClients :
              (pc[c] = "reconnect" /\ pc'[c] = "send")
                  => IF sched' = Append(sched, ArduinoStatus(TRUE))
                     THEN /\ connected' /\ running'
                          /\ serial_connection' = "open"
                          /\ threads'[comm_thread'].pc = "loop"
                          /\ threads[comm_thread'].pc = "none"
                          /\ out'[c] = ResetReply(TRUE)
                     ELSE /\ Exhausted'
                          /\ out'[c] = ResetReply(FALSE)]_vars
C20_Witness ==
    /\ threads[1].pc = "exit" /\ threads[1].attempts = MaxReconnectAttempts
    /\ comm_thread = 2 /\ threads[2].pc = "loop"
    /\ connected /\ running
    /\ handled.branch = "reset_arduino"
    /\ \E c \in BridgeClients : pc[c] = "send" /\ out[c] = ResetReply(TRUE)

\* The state and telemetry events.
Telemetry == { "state", "joystick_update", "led_update", "arduino_status" }

\* C12: every delivery of a state, joystick_update, led_update or
\* arduino_status message, as the reply of a handler or as one send of a
\* broadcast, is to a session that is authenticated at that moment; a session
\* that is connected and not authenticated is delivered nothing but
\* auth_required and auth_failed.
C12_TelemetryToAuthenticated ==
    [][/\ \A c \in Sessions :
            (pc[c] = "send" /\ pc'[c] # "send" /\ sock[c] = "open")
                => /\ out[c].type \in Telemetry
                        => (c \in authenticated_clients /\ authenticated[c])
                   /\ c \notin authenticated_clients
                        => out[c].type \in {"auth_required", "auth_failed"}
       /\ \A b \in BcIds, t \in Sessions :
            (/\ bcast[b].active /\ t \in bcast[b].todo
             /\ t \notin bcast'[b].todo /\ sock[t] = "open")
                => /\ bcast[b].msg.type \in Telemetry
                   /\ t \in authenticated_clients /\ authenticated[t]]_vars
C12_Witness ==
    /\ auth_enabled
    /\ 1 \in authenticated_clients
    /\ 2 \in clients \ authenticated_clients /\ sock[2] = "open" /\ pc[2] = "recv"
    /\ \E b \in CbIds :
          /\ bcast[b].active /\ bcast[b].msg.type = "joystick_update"
          /\ bcast[b].targets = {1} /\ bcast[b].ok = {1}

\* C26: no admin sub-command makes its handler send to another session: a
\* send of a broadcast awaited by the handler of session c that is delivered
\* to another session t carries a led_update (the broadcast of led_control),
\* never a message of an admin command.
C26_AdminReplyTargeted ==
    [][\A c \in Sessions, t \in Sessions :
          (/\ bcast[c].active /\ t \in bcast[c].todo
           /\ t \notin bcast'[c].todo /\ sock[t] = "open" /\ t # c)
              => bcast[c].msg.type = "led_update"]_vars

\* C24: the step in which a handler runs run_diagnostic leaves the stored
\* LED values, the joystick values and the connection status as they were,
\* for any LED values and connected or not; the 'leds' field of the result is
\* the LED state before the test; with the link not connected nothing is
\* written to the device and led_test is False.
C24_DiagnosticFrame ==
    [][\A c \in Sessions :
          (Takes(c) /\ Dispatch(c, Cur(c)) = "diagnostic")
              => /\ led_values' = led_values
                 /\ joystick_values' = joystick_values
                 /\ connected' = connected
                 /\ out'[c].type = "admin_response"
                 /\ out'[c].results.leds = led_values
                 /\ out'[c].results.joysticks = joystick_values
                 /\ out'[c].results.connected = connected
                 /\ ~connected => /\ serial_out' = serial_out
                                  /\ ~out'[c].results.led_test]_vars
C24_Witness ==
    /\ handled.branch = "diagnostic" /\ handled.session = 1
    /\ pc[1] = "send" /\ out[1].type = "admin_response"
    /\ out[1].command = "diagnostic"
    /\ led_values["led1"] = LedHigh
    /\ out[1].results.leds = led_values
    /\ out[1].results.led_test
    /\ serial_out = LedCommand(led_values)

\* C25: the step in which a handler takes get_state replies to the requester
\* with the snapshot of the current state and changes nothing the snapshot
\* is made of, so that a second get_state with nothing in between is answered
\* with the same snapshot; of the server's state it changes only the
\* requester's count of received messages (none once the session has been
\* unregistered), and it starts no broadcast and prepares no message for
\* another session.
C25_GetStateReadOnly ==
    [][\A c \in Sessions :
          (Takes(c) /\ Dispatch(c, Cur(c)) = "get_state")
              => /\ out'[c] = StateMsg
                 /\ StateMsg' = StateMsg
                 /\ \A t \in Sessions \ {c} : out'[t] = out[t] /\ pc'[t] = pc[t]
                 /\ bcast' = bcast /\ sched' = sched
                 /\ client_info' =
                        IF client_info[c].present
                        THEN [client_info EXCEPT ![c].messages_received = @ + 1]
                        ELSE client_info
                 /\ UNCHANGED << ctlVars, auth_enabled, lifeVars, clients,
                                 authenticated_clients, lock_states_len >>]_vars
C25_Witness ==
    /\ handled.branch = "get_state" /\ handled.session = 1
    /\ client_info[1].present /\ client_info[1].messages_received = 2
    /\ pc[1] = "send" /\ out[1] = StateMsg
    /\ joystick_values # InitJoysticks

\* C27: the log of LED changes never holds more entries than its capacity,
\* however many led_control messages are handled.
C27_LogBounded == lock_states_len <= LogCapacity

\* C30: at no time are two communication-loop threads alive (started and
\* not yet returned from _communication_loop).
C30_SingleReader ==
    Cardinality({ t \in ThreadIds : threads[t].pc \notin {"none", "exit"} }) <= 1

\* The distance between two values.
Dist(a, b) == IF a >= b THEN a - b ELSE b - a

\* C29: from the defaults, after any number of ticks of the synthetic source
\* each of the nine joystick values is within 0..1023, and a tick moves each
\* value by at most 20.
C29_SimulatedRange ==
    /\ [](\A k \in JoyKeys : joystick_values[k] \in JoyLow .. JoyHigh)
    /\ [][\A k \in JoyKeys :
            Dist(joystick_values'[k], joystick_values[k]) <= MaxDrift]_vars
C29_Witness ==
    /\ joystick_values["joystick1"] = JoyHigh
    /\ joystick_values["joystick2"] = JoyLow
    /\ joystick_values["joystick3Y"] = JoyLow

\* C23: a direct call of set_led_values whose command cannot be delivered
\* (the link is not connected, the port is closed, or the write raises)
\* returns False, leaves the connection status as it was, and leaves every
\* channel it was given at the clamped new value and the others untouched.
C23_WriteFailureReported ==
    [][\A l1 \in LedArgs, l2 \in LedArgs, l3 \in LedArgs, w \in BOOLEAN :
          (/\ SetLedValues(l1, l2, l3, w)
           /\ ~(connected /\ serial_connection = "open" /\ w))
              => /\ led_result' = Some(FALSE)
                 /\ connected' = connected
                 /\ serial_out' = serial_out
                 /\ \A k \in LedKeys :
                      LET a == CASE k = "led1" -> l1 [] k = "led2" -> l2
                                 [] k = "led3" -> l3
                      IN led_values'[k] =
                            IF a = None THEN led_values[k]
                            ELSE IF a[1] < LedLow THEN LedLow
                            ELSE IF a[1] > LedHigh THEN LedHigh
                            ELSE a[1]]_vars
C23_Witness ==
    /\ led_result = Some(FALSE)
    /\ ~connected
    /\ led_values = [led1 |-> LedHigh, led2 |-> LedLow, led3 |-> LedHigh]
    /\ serial_out = << >>

\* C21: when stop_server closes the listening socket and the connections,
\* and when it disconnects the link, every session connected at that moment
\* has already been sent the server_shutdown notice.
C21_NoticeBeforeClose ==
    [][(\/ server = "listening" /\ server' = "closed"
        \/ stop_pc # "idle" /\ connected /\ ~connected')
          => /\ \A c \in clients : sock[c] = "open" => c \in bcast[StopId].ok
             /\ clients # {} => bcast[StopId].msg = ServerShutdown]_vars

\* C28: a failure of connect() when the server is started is not fatal: the
\* step of start_server in which the link could not be connected leaves the
\* server listening and schedules the status notification (connected false).
C28_ConnectErrorNotFatal ==
    [][(server = "none" /\ server' # "none" /\ ~connected')
          => /\ server' = "listening"
             /\ sched' = Append(sched, ArduinoStatus(FALSE))]_vars

\* C22: a slow client never stalls the broadcast hub: a broadcast that a
\* led_control handler awaits completes, also when the send to one target
\* session never completes.
C22_BroadcastCompletes ==
    \A c \in Sessions : (pc[c] = "gather") ~> (pc[c] # "gather")

\* C31: at most one hardware link is open at a time: whenever connect() opens
\* a new serial connection (the step that notifies the status True), the
\* serial connection opened before has been closed, under any interleaving of
\* the reader's reconnection attempts with reset_arduino.
C31_PreviousLinkClosed ==
    [][sched' = Notified(sched, TRUE) => serial_connection # "open"]_vars

\* C32: the joystick_update that the event loop serializes for an accepted
\* frame carries exactly the nine values of that frame, also when the reader
\* has applied further frames before the event loop serializes the message.
C32_UpdateCarriesItsFrame ==
    [][\A b \in CbIds :
          (/\ ~bcast[b].active /\ bcast'[b].active
           /\ Len(sched) > 0 /\ Head(sched).type = "joystick_update")
              => bcast'[b].msg.joysticks = Decoded(Head(sched).frame)]_vars

\* C33: a line of the device that is no valid joystick frame (not delimited
\* by < and >, a payload that does not start with J, a number of fields other
\* than six, a field that is no integer) is dropped: the nine joystick values
\* stay as they were, the joystick callback is not invoked, the connection
\* status is unchanged and the reader loop keeps running.
C33_BadLineDropped ==
    [][\A line \in BadLines :
          ReaderRead(1, line)
            => /\ joystick_values' = joystick_values
               /\ sched' = sched
               /\ connected' = connected
               /\ serial_connection' = serial_connection
               /\ running'
               /\ threads'[1].pc = "loop"]_vars
\* One line has been read and dropped: nothing was applied or scheduled and
\* the reader is in its loop on the connected link.
C33_Witness ==
    /\ nlines = 1
    /\ threads[1].pc = "loop"
    /\ threads[1].vals = << >>
    /\ joystick_values = InitJoysticks
    /\ sched = << >>
    /\ \A b \in CbIds : ~bcast[b].active
    /\ connected /\ running

\* C34: connection-status notifications are fired only on transitions of the
\* status: two notifications that follow one another (here: that wait one
\* behind the other for the event loop) never carry the same value.
C34_NoRepeatedStatus ==
    \A i \in 1 .. (Len(sched) - 1) :
        (sched[i].type = "arduino_status" /\ sched[i + 1].type = "arduino_status")
            => sched[i].connected # sched[i + 1].connected

\* C35: in every reachable state a session whose is_admin flag is true is
\* authenticated: its authenticated flag is true and it is in the
\* authenticated set, whatever the connects, auth messages and disconnects.
C35_AdminIsAuthenticated ==
    \A c \in Sessions :
        client_info[c].is_admin
            => /\ client_info[c].present
               /\ client_info[c].authenticated
               /\ c \in authenticated_clients
\* One session is admin while the other, which was authenticated, has
\* disconnected and is unregistered.
C35_Witness ==
    \E c \in Sessions, d \in Sessions :
        /\ client_info[c].is_admin
        /\ d # c /\ authenticated[d] /\ pc[d] = "done" /\ ~client_info[d].present

\* C36: once the handler of a session has terminated the session is in
\* neither set nor in client_info, and stays so; the step that ends a handler
\* and a failed send to a session that is unregistered already (the second
\* unregister_client) change nothing for any other session, and the second
\* unregister_client changes nothing at all.
Unregistered(c) ==
    c \notin clients /\ c \notin authenticated_clients /\ ~client_info[c].present
OthersKept(c) ==
    \A d \in Sessions \ {c} :
        /\ (d \in clients') = (d \in clients)
        /\ (d \in authenticated_clients') = (d \in authenticated_clients)
        /\ client_info'[d] = client_info[d]
C36_UnregisteredForGood ==
    /\ [](\A c \in Sessions : pc[c] = "done" => Unregistered(c))
    /\ [][\A c \in Sessions :
            (pc[c] # "done" /\ pc'[c] = "done") => OthersKept(c)]_vars
    /\ [][\A b \in BcIds, t \in Sessions :
            (/\ bcast[b].active /\ t \in bcast[b].todo /\ t \notin bcast'[b].todo
             /\ sock[t] = "closed" /\ Unregistered(t))
                => /\ clients' = clients
                   /\ authenticated_clients' = authenticated_clients
                   /\ client_info' = client_info]_vars
\* A session was unregistered both by the failed send of a broadcast and by
\* the cleanup of its handler, while the other session is registered.
C36_Witness ==
    \E c \in Sessions, d \in Sessions, b \in BcIds :
        /\ pc[c] = "done"
        /\ bcast[b].active
        /\ c \in bcast[b].targets /\ c \notin bcast[b].todo /\ c \notin bcast[b].ok
        /\ d # c /\ d \in clients /\ d \in authenticated_clients
        /\ client_info[d].present

\* C37: whenever the handling of a led_control changes the stored LED state,
\* a led_update with the resulting state is broadcast to the authenticated
\* sessions, also when the led_control fails part-way.
C37_ChangeIsBroadcast ==
    [][\A c \in Sessions :
          (/\ Takes(c)
           /\ Dispatch(c, Cur(c)) = "led_control"
           /\ led_values' # led_values
           /\ authenticated_clients # {})
              => /\ bcast'[c].active
                 /\ bcast'[c].msg = LedUpdate(led_values')
                 /\ bcast'[c].targets = authenticated_clients]_vars

\* C38 as amended: the receipt of any non-empty line that decodes as text,
\* also one that is no valid frame, resets last_data_time and the
\* reconnect-attempt counter (for a frame: once it is applied and the callback
\* has run), so that the data timeout is not met after it.
C38_TextLineResetsTimer ==
    [][/\ \A line \in TextLines :
            (ParseFrame(line) = None /\ ReaderRead(1, line))
                => /\ age' = 0 /\ age' <= DataTimeout
                   /\ threads'[1].attempts = 0
                   /\ tries' = 0
       /\ (threads[1].pc = "apply" /\ threads'[1].pc = "loop")
                => /\ age' = 0
                   /\ threads'[1].attempts = 0
                   /\ tries' = 0]_vars
\* The link was lost and reopened, and the one line read since, which is no
\* frame, has reset the timer and the counter of attempts.
C38_Witness ==
    /\ nlines = 1
    /\ threads[1].pc = "loop" /\ threads[1].vals = << >>
    /\ connected
    /\ sched = << ArduinoStatus(FALSE), ArduinoStatus(TRUE) >>
    /\ tries = 0 /\ threads[1].attempts = 0 /\ age = 0
\* C38 as stated: the receipt of any non-empty line from the device resets
\* last_data_time and the reconnect-attempt counter.
C38_AnyLineResetsTimer ==
    [][\A line \in TextLines \cup NoiseLines :
            (ParseFrame(line) = None /\ ReaderRead(1, line))
                => /\ age' = 0
                   /\ threads'[1].attempts = 0]_vars

\* C39: with authentication disabled no session ever has is_admin true,
\* whatever it sends: an auth message, also one with the admin token, is no
\* authentication, every admin_command is ignored, and no handler is ever
\* inside reset_arduino or has run a sub-command.
C39_NoAdminWhenOpen ==
    ~auth_enabled
        => /\ \A c \in Sessions :
                /\ ~client_info[c].is_admin
                /\ pc[c] \notin {"join", "reconnect"}
           /\ handled.branch \notin AdminCommands \cup {"auth"}
           /\ handled.msg.type \in {Some("auth"), Some("admin_command")}
                => handled.branch = "unhandled"
\* With authentication disabled the session has sent two messages, the last
\* of them reset_arduino, which was ignored: the first reader still runs.
C39_Witness ==
    /\ ~auth_enabled
    /\ client_info[1].messages_received = 2
    /\ handled.msg = AdminCommand(Some("reset_arduino"))
    /\ handled.branch = "unhandled"
    /\ connected /\ running /\ comm_thread = 1

\* C40: the authentication of a session is fixed by its first successful
\* auth message: an auth message taken by a handler whose session is
\* authenticated, whatever its token, changes neither the authenticated flag
\* nor is_admin nor the authenticated set, and no reply (auth_failed, state)
\* or broadcast is sent for it.
C40_FirstAuthDecides ==
    [][\A c \in Sessions :
          (/\ Takes(c)
           /\ Cur(c).json = "object" /\ Cur(c).type = Some("auth")
           /\ authenticated[c])
              => /\ authenticated'[c]
                 /\ client_info'[c].authenticated = client_info[c].authenticated
                 /\ client_info'[c].is_admin = client_info[c].is_admin
                 /\ authenticated_clients' = authenticated_clients
                 /\ out' = out /\ pc' = pc /\ bcast' = bcast]_vars
\* A session that authenticated as a user has then sent the admin token: it
\* is authenticated and not admin, and nothing is being sent to it.
C40_Witness ==
    /\ auth_enabled
    /\ handled.session = 1
    /\ handled.msg = AuthMsg(Some(DEFAULT_ADMIN_TOKEN))
    /\ handled.branch = "unhandled"
    /\ authenticated[1]
    /\ client_info[1].authenticated /\ ~client_info[1].is_admin
    /\ client_info[1].messages_received = 2
    /\ pc[1] = "recv" /\ out[1] = NoMsg

====
